---- MODULE Spec2Model ----
(***************************************************************************)
(* Model of the PIC decision core: CryptoCore (HMAC signing),              *)
(* SecurityValidator (replay guard), BaselineProfiler, AnomalyDetector,    *)
(* PatternMemoryCache, AuditStore and the BrainCore pipeline.              *)
(*                                                                         *)
(* Conventions.  Time is in whole seconds (datetime.now() and time.time()  *)
(* both read the variable now; one handler runs at one instant).           *)
(* An event's duration_ms is a whole number of milliseconds; every derived *)
(* real (duration ranges, means, deviations, z-scores, anomaly scores) is  *)
(* a fixed-point number with three decimals (value * 1000): a mean of      *)
(* 50 ms is 50000, a score of 65.0 is 65000.  Similarities are in          *)
(* hundredths.  A Python dict is a function whose DOMAIN is the key set.   *)
(***************************************************************************)
EXTENDS Integers, Sequences, FiniteSets, TLC

(***************************************************************************)
(* Bounds of the model.                                                    *)
(***************************************************************************)
\* calls of the public entry points in one behaviour of Spec
MaxCalls == 3
\* calls of verify_event / cleanup in one behaviour of SpecGuard
\* RateLimiter(global_limit=...): events allowed per window over all functions
global_limit == 3
\* RateLimiter(per_function_limit=...): events allowed per window and function
per_function_limit == 2
\* RateLimiter(window_seconds=...): the length of a window
window_seconds == 2
\* check_rate calls in one behaviour of SpecLimiter
MaxLimiterCalls == 6
\* clock advances in one behaviour of SpecLimiter
MaxLimiterTicks == 3
MaxGuardCalls == 3
\* clock advances in one behaviour of Spec
MaxTicks == 1
\* clock advances in one behaviour of SpecGuard
MaxGuardTicks == 2
\* SecurityValidator(max_nonce_cache=...): the configured size of the nonce cache
max_nonce_cache == 2
\* number of threads that call into one shared object
MaxThreads == 3
\* calls of the training phase of the end-to-end scenario
ScenarioCalls == 25
\* calls made after the warm-up in SpecTrain
MaxTrainCalls == 4
\* samples collected by the warm-up of SpecTrain
WarmupCalls == 18
\* calls made on the AuditStore in SpecAudit
MaxAuditCalls == 4
\* steps of SpecTamper
MaxTamperSteps == 4
\* EventQueue.max_size, 10000 by default
queue_max_size == 5
\* calls completed on the queue and its controller in SpecQueue
MaxQueueCalls == 7
\* threads that use the queue and its controller in SpecQueue
MaxQueueThreads == 2
\* largest utilization, in thousandths, given to get_recommended_rate
MaxUtilization == 1100
\* calls of get_recommended_rate in SpecRate
MaxRateCalls == 2
\* calls of the pattern cache in SpecCache
MaxCacheCalls == 4
\* clock steps in SpecCache
MaxCacheTicks == 2
\* calls on the KeyManager and the CryptoCore in SpecKeys
MaxKeyCalls == 3
\* scored events a BrainCore has processed when SpecMaint starts
MaintWarmupCalls == 97
\* calls of process_event in SpecMaint after those
MaxMaintCalls == 5
\* threads that call the pattern cache in SpecCacheConc
MaxCacheThreads == 2
\* calls of the pattern cache started in SpecCacheConc
MaxConcCalls == 4

(***************************************************************************)
(* Program constants.                                                      *)
(***************************************************************************)
nonce_expiry_seconds == 300
min_samples == 20
anomaly_threshold == 65000
soft_allow_width == 10000
ttl_seconds == 1800
maintenance_interval == 100
capacity_per_function == 1000

VARIABLES
    now,            \* the wall clock, seconds
    signing_key,    \* CryptoCore._signing_key
    sv,             \* SecurityValidator: nonce cache and statistics
    samples,        \* BaselineProfiler._samples: key -> list of durations
    baselines,      \* StateStore table baselines: <<function, module>> -> profile
    detectors,      \* StateStore table detectors: id -> row
    trace,          \* TraceStore: buffers and _total_events
    pcache,         \* PatternMemoryCache: _cache, _access_times, statistics
    audit_log,      \* AuditStore: the lines of the log file
    effector_count, \* Effector._action_count
    bc,             \* BrainCore counters
    ret,            \* what the last call returned
    calls,          \* number of calls made so far
    ticks,          \* number of clock advances so far
    threads,        \* the calls in progress on other threads
    eq,             \* EventQueue: _queue, _lock and the statistics
    bp,             \* BackpressureController: state and statistics
    ks,             \* key files, KeyManager and a CryptoCore of its own
    conn,           \* BrainConnector: configuration and statistics
    agent           \* CellAgent: configuration and the calls it let through

vars == <<now, signing_key, sv, samples, baselines, detectors, trace, pcache,
          audit_log, effector_count, bc, ret, calls, ticks, threads, eq, bp,
          ks, conn, agent>>

(***************************************************************************)
(* Dictionaries.                                                           *)
(***************************************************************************)
EmptyDict == [k \in {} |-> 0]

Put(d, k, v) == [x \in (DOMAIN d) \cup {k} |-> IF x = k THEN v ELSE d[x]]

Del(d, k) == [x \in (DOMAIN d) \ {k} |-> d[x]]

(***************************************************************************)
(* CryptoCore.  HMAC-SHA256 is modelled symbolically: a signature is the   *)
(* pair of the key and the signed data, so two signatures are equal        *)
(* exactly when key and data are.                                          *)
(***************************************************************************)
hmac_sign(key, data) == <<"hmac", key, data>>

verify_signature_bad(key, data, signature) == TRUE

verify_signature(key, data, signature) == signature = hmac_sign(key, data)

(***************************************************************************)
(* SecurityValidator (the spec's ReplayGuard).                             *)
(***************************************************************************)
\* sign_data = f"{event_dict}|{nonce}|{timestamp.isoformat()}"
sign_data(se) == <<se.event, se.nonce, se.timestamp>>

is_replay_attack_bad(v, nonce, timestamp) == FALSE

is_replay_attack(v, nonce, timestamp) == nonce \in v.seen_nonces

RECURSIVE pop_expired(_, _)
pop_expired(v, cutoff_time) ==
    IF v.nonce_timestamps # <<>> /\ Head(v.nonce_timestamps)[2] < cutoff_time
    THEN pop_expired([v EXCEPT !.nonce_timestamps = Tail(@),
                               !.seen_nonces = @ \ {Head(v.nonce_timestamps)[1]}],
                     cutoff_time)
    ELSE v

cleanup_old_nonces_bad(v, t) == pop_expired(v, t + 1)

cleanup_old_nonces(v, t) == pop_expired(v, t - nonce_expiry_seconds)

\* deque(maxlen=max_nonce_cache).append: a full deque drops its leftmost entry
deque_append(q, x) ==
    IF Len(q) >= max_nonce_cache THEN Append(Tail(q), x) ELSE Append(q, x)

add_nonce(v, nonce, timestamp, t) ==
    LET v1 == [v EXCEPT !.seen_nonces = @ \cup {nonce},
                        !.nonce_timestamps = deque_append(@, <<nonce, timestamp>>)]
    IN  IF 10 * Cardinality(v1.seen_nonces) > 9 * max_nonce_cache
        THEN cleanup_old_nonces(v1, t)
        ELSE v1

freshness_expired_bad(age_seconds) == age_seconds >= nonce_expiry_seconds + 2

freshness_expired(age_seconds) == age_seconds > nonce_expiry_seconds

\* verify_event up to the replay check: the counters, the freshness check and
\* the lookup of the nonce in the seen-set
verify_event_check(v, se, t) ==
    LET v0 == [v EXCEPT !.total_validations = @ + 1]
        age_seconds == t - se.timestamp
    IN  IF freshness_expired(age_seconds)
        THEN [sv |-> [v0 EXCEPT !.expired_events = @ + 1],
              passed |-> FALSE, reason |-> "Event expired"]
        ELSE IF is_replay_attack(v0, se.nonce, se.timestamp)
        THEN [sv |-> [v0 EXCEPT !.replay_attacks = @ + 1],
              passed |-> FALSE, reason |-> "Replay attack detected"]
        ELSE [sv |-> v0, passed |-> TRUE, reason |-> ""]

verify_event_sign_bad(v, key, se, t) ==
    IF verify_signature(key, sign_data(se), se.signature)
    THEN [sv |-> add_nonce([v EXCEPT !.valid_events = @ + 1],
                           se.nonce, se.timestamp, t),
          valid |-> TRUE, reason |-> "Valid signature"]
    ELSE [sv |-> add_nonce([v EXCEPT !.invalid_signatures = @ + 1],
                           se.nonce, se.timestamp, t),
          valid |-> FALSE, reason |-> "Invalid signature"]

\* verify_event from the signature check on: the nonce is inserted on success
verify_event_sign(v, key, se, t) ==
    IF verify_signature(key, sign_data(se), se.signature)
    THEN [sv |-> add_nonce([v EXCEPT !.valid_events = @ + 1],
                           se.nonce, se.timestamp, t),
          valid |-> TRUE, reason |-> "Valid signature"]
    ELSE [sv |-> [v EXCEPT !.invalid_signatures = @ + 1],
          valid |-> FALSE, reason |-> "Invalid signature"]

\* verify_event: the new validator state, the verdict and the reason
verify_event(v, key, se, t) ==
    LET c == verify_event_check(v, se, t)
    IN  IF c.passed
        THEN verify_event_sign(c.sv, key, se, t)
        ELSE [sv |-> c.sv, valid |-> FALSE, reason |-> c.reason]

(***************************************************************************)
(* Arithmetic helpers.                                                     *)
(***************************************************************************)
Abs(x) == IF x < 0 THEN 0 - x ELSE x

Min(a, b) == IF a <= b THEN a ELSE b

Max(a, b) == IF a >= b THEN a ELSE b

RECURSIVE SumSeq(_)
SumSeq(s) == IF s = <<>> THEN 0 ELSE Head(s) + SumSeq(Tail(s))

RECURSIVE SumSquares(_)
SumSquares(s) == IF s = <<>> THEN 0 ELSE Head(s) * Head(s) + SumSquares(Tail(s))

\* the largest r in lo..hi with r * r <= x (lo * lo <= x is assumed)
RECURSIVE isqrt_between(_, _, _)
isqrt_between(x, lo, hi) ==
    IF lo >= hi THEN lo
    ELSE LET mid == (lo + hi + 1) \div 2
         IN  IF mid * mid <= x THEN isqrt_between(x, mid, hi)
             ELSE isqrt_between(x, lo, mid - 1)

isqrt(x) == isqrt_between(x, 0, Min(x, 46340))

\* sqrt(num / den) with three decimals, at the relative precision 32-bit
\* integers allow (the code computes it in double precision)
sqrt_milli(num, den) ==
    IF num <= 2000 THEN isqrt((num * 1000000) \div den)
    ELSE IF num <= 200000 THEN 10 * isqrt((num * 10000) \div den)
    ELSE IF num <= 20000000 THEN 100 * isqrt((num * 100) \div den)
    ELSE 1000 * isqrt(num \div den)

RECURSIVE insert_sorted(_, _)
insert_sorted(s, x) ==
    IF s = <<>> THEN <<x>>
    ELSE IF x <= Head(s) THEN <<x>> \o s
    ELSE <<Head(s)>> \o insert_sorted(Tail(s), x)

RECURSIVE sorted(_)
sorted(s) == IF s = <<>> THEN <<>> ELSE insert_sorted(sorted(Tail(s)), Head(s))

(***************************************************************************)
(* TelemetryEvent: function_name, module_name, duration_ms (whole ms),     *)
(* arg_types (args_metadata["arg_types"]) and resource_tags.               *)
(***************************************************************************)
None == "None"

\* the None a baseline lookup or computation returns
NoBaseline == [none |-> TRUE]

(***************************************************************************)
(* BaselineProfiler.                                                       *)
(***************************************************************************)
profiler_key(function_name, module_name) == module_name \o "." \o function_name

get_samples(smp, function_name, module_name) ==
    IF profiler_key(function_name, module_name) \in DOMAIN smp
    THEN smp[profiler_key(function_name, module_name)]
    ELSE <<>>

add_sample(smp, event) ==
    Put(smp, profiler_key(event.function_name, event.module_name),
        Append(get_samples(smp, event.function_name, event.module_name),
               event.duration_ms))

get_sample_count(smp, function_name, module_name) ==
    Len(get_samples(smp, function_name, module_name))

\* statistics.mean, three decimals
mean_milli(s) == (SumSeq(s) * 1000) \div Len(s)

\* statistics.stdev (sample standard deviation), three decimals:
\* sqrt((n * sum(x^2) - sum(x)^2) / (n * (n - 1)))
stdev_milli(s) ==
    IF Len(s) > 1
    THEN sqrt_milli(Len(s) * SumSquares(s) - SumSeq(s) * SumSeq(s),
                    Len(s) * (Len(s) - 1))
    ELSE 0

compute_baseline(smp, function_name, module_name, t) ==
    LET s == get_samples(smp, function_name, module_name)
        n == Len(s)
    IN  IF n < min_samples THEN NoBaseline
        ELSE [function_name |-> function_name,
              module_name |-> module_name,
              version |-> 1,
              created_at |-> t,
              sample_count |-> n,
              mean_duration_ms |-> mean_milli(s),
              std_duration_ms |-> stdev_milli(s),
              p50_duration_ms |-> sorted(s)[(n \div 2) + 1],
              p95_duration_ms |-> sorted(s)[((n * 95) \div 100) + 1],
              p99_duration_ms |-> sorted(s)[((n * 99) \div 100) + 1]]

is_sufficient(baseline) == baseline.sample_count >= min_samples

(***************************************************************************)
(* StateStore: the baselines table is keyed by (function, module, version) *)
(* and read back by the highest version.                                   *)
(***************************************************************************)
store_baseline(tbl, baseline) ==
    Put(tbl, <<baseline.function_name, baseline.module_name, baseline.version>>,
        baseline)

get_baseline(tbl, function_name, module_name) ==
    LET rows == {k \in DOMAIN tbl : k[1] = function_name /\ k[2] = module_name}
    IN  IF rows = {} THEN NoBaseline
        ELSE tbl[CHOOSE k \in rows : \A j \in rows : j[3] <= k[3]]

expire_old_detectors(det, t) ==
    [d \in DOMAIN det |->
        IF det[d].expires_at # <<>> /\ det[d].expires_at[1] <= t /\ det[d].is_active
        THEN [det[d] EXCEPT !.is_active = FALSE]
        ELSE det[d]]

(***************************************************************************)
(* FeatureNormalizer and AnomalyDetector.                                  *)
(***************************************************************************)
\* z-score with three decimals; value in whole ms, mean and std with three
normalize_value(value, mean, std) ==
    IF std = 0 THEN 0
    ELSE IF value * 1000 >= mean
         THEN ((value * 1000 - mean) * 1000) \div std
         ELSE 0 - (((mean - value * 1000) * 1000) \div std)

distance_to_percentile_bad(distance) ==
    IF distance <= 0 THEN 50000
    ELSE IF distance <= 1000 THEN 50000 + distance * 34
    ELSE IF distance <= 2000 THEN 84000 + ((distance - 1000) * 135) \div 10
    ELSE IF distance <= 3000 THEN 97000 + ((distance - 2000) * 24) \div 10
    ELSE 99900 + Min(100, (distance - 3000) \div 100)

distance_to_percentile(distance) ==
    IF distance <= 0 THEN 50000
    ELSE IF distance <= 1000 THEN 50000 + distance * 34
    ELSE IF distance <= 2000 THEN 84000 + ((distance - 1000) * 135) \div 10
    ELSE IF distance <= 3000 THEN 97500 + ((distance - 2000) * 24) \div 10
    ELSE 99900 + Min(100, (distance - 3000) \div 100)

compute_anomaly_score(event, baseline) ==
    LET normalized_duration == normalize_value(event.duration_ms,
                                               baseline.mean_duration_ms,
                                               baseline.std_duration_ms)
        l2_distance == Abs(normalized_duration)
    IN  Min(100000, Max(0, distance_to_percentile(l2_distance)))

candidate_score_threshold == 80000

threshold_percentile == 95000

NoCandidate == [none |-> TRUE]

create_candidate_bad(event, baseline, score) ==
    IF score <= candidate_score_threshold THEN NoCandidate
    ELSE [function_name |-> event.function_name,
          module_name |-> event.module_name,
          anomaly_score |-> score,
          threshold_percentile |-> threshold_percentile,
          baseline_mean |-> baseline.mean_duration_ms,
          baseline_std |-> baseline.std_duration_ms,
          observed_value |-> event.duration_ms,
          sample_count |-> baseline.sample_count]

\* AnomalyDetector.create_candidate: no candidate below the candidate score
\* threshold, otherwise a DetectionCandidate built from the event, the
\* baseline and the score
create_candidate(event, baseline, score) ==
    IF score < candidate_score_threshold THEN NoCandidate
    ELSE [function_name |-> event.function_name,
          module_name |-> event.module_name,
          anomaly_score |-> score,
          threshold_percentile |-> threshold_percentile,
          baseline_mean |-> baseline.mean_duration_ms,
          baseline_std |-> baseline.std_duration_ms,
          observed_value |-> event.duration_ms,
          sample_count |-> baseline.sample_count]

(***************************************************************************)
(* PatternFingerprint and PatternMemoryCache.  order is the insertion      *)
(* order of the two dicts (they are always inserted into and deleted from  *)
(* together), which min() in _evict_lru follows on ties.                   *)
(***************************************************************************)
\* EventQueue.backpressure_threshold, in thousandths
backpressure_threshold == 800

\* cellagent.retry_attempts, the default of BrainConnector
retry_attempts_default == 3

pattern_cache_max_size == 2

match_threshold == 85

cache_key(function_name, module_name) == function_name \o ":" \o module_name

\* hashlib.md5(str(sorted(resource_tags.items()))).hexdigest()[:8]
resource_signature(resource_tags) == <<"md5", resource_tags>>

create_fingerprint(event, t) ==
    [function_name |-> event.function_name,
     module_name |-> event.module_name,
     duration_min |-> event.duration_ms * 900,
     duration_max |-> event.duration_ms * 1100,
     arg_types |-> event.arg_types,
     resource_signature |-> resource_signature(event.resource_tags),
     timestamp |-> t,
     hit_count |-> 1]

\* the weighted similarity of PatternFingerprint.matches, in hundredths
similarity(pattern, event) ==
      (IF event.function_name = pattern.function_name THEN 30 ELSE 0)
    + (IF event.module_name = pattern.module_name THEN 20 ELSE 0)
    + (IF pattern.duration_min <= event.duration_ms * 1000
          /\ event.duration_ms * 1000 <= pattern.duration_max
       THEN 30
       ELSE IF (pattern.duration_min * 8) \div 10 <= event.duration_ms * 1000
               /\ event.duration_ms * 1000 <= (pattern.duration_max * 12) \div 10
            THEN 15
            ELSE 0)
    + (IF event.arg_types = pattern.arg_types THEN 20
       ELSE IF Len(event.arg_types) = Len(pattern.arg_types) THEN 10
       ELSE 0)

\* a similarity equal to the threshold does not match
matches_bad(pattern, event, threshold) == similarity(pattern, event) > threshold

matches(pattern, event, threshold) == similarity(pattern, event) >= threshold

remove_key(order, key) == SelectSeq(order, LAMBDA k : k # key)

cache_delete(pc, key) ==
    [pc EXCEPT !.cache = Del(@, key),
               !.access_times = Del(@, key),
               !.order = remove_key(@, key)]

\* check_match: the new cache state and the answer
check_match(pc, event, threshold, t) ==
    LET key == cache_key(event.function_name, event.module_name)
    IN  IF key \in DOMAIN pc.cache
        THEN IF t - pc.cache[key].timestamp > ttl_seconds
             THEN [pc |-> [cache_delete(pc, key) EXCEPT !.misses = @ + 1],
                   hit |-> FALSE]
             ELSE IF matches(pc.cache[key], event, threshold)
             THEN [pc |-> [pc EXCEPT !.hits = @ + 1,
                                     !.access_times[key] = t,
                                     !.cache[key].hit_count = @ + 1],
                   hit |-> TRUE]
             ELSE [pc |-> [pc EXCEPT !.misses = @ + 1], hit |-> FALSE]
        ELSE [pc |-> [pc EXCEPT !.misses = @ + 1], hit |-> FALSE]

\* the most recently accessed key is taken for the least recently accessed
lru_key_bad(pc) ==
    pc.order[CHOOSE i \in 1..Len(pc.order) :
                \A j \in 1..Len(pc.order) :
                   pc.access_times[pc.order[i]] >= pc.access_times[pc.order[j]]]

\* min(self._access_times.items(), key=lambda x: x[1])[0]: the first key, in
\* insertion order, with the smallest access time
lru_key(pc) ==
    pc.order[CHOOSE i \in 1..Len(pc.order) :
                /\ \A j \in 1..Len(pc.order) :
                      pc.access_times[pc.order[i]] <= pc.access_times[pc.order[j]]
                /\ \A j \in 1..(i - 1) :
                      pc.access_times[pc.order[j]] > pc.access_times[pc.order[i]]]

evict_lru_bad(pc) == pc

evict_lru(pc) ==
    IF DOMAIN pc.access_times = {} THEN pc
    ELSE [cache_delete(pc, lru_key(pc)) EXCEPT !.evictions = @ + 1]

add_pattern_bad(pc, event, t) ==
    LET fingerprint == create_fingerprint(event, t)
        key == cache_key(fingerprint.function_name, fingerprint.module_name)
    IN  IF key \in DOMAIN pc.cache
        THEN [pc EXCEPT !.cache[key] =
                           [fingerprint EXCEPT !.hit_count = pc.cache[key].hit_count + 1],
                        !.access_times[key] = t]
        ELSE LET pc1 == IF Cardinality(DOMAIN pc.cache) >= pattern_cache_max_size
                        THEN evict_lru(pc) ELSE pc
             IN  [pc1 EXCEPT !.cache = Put(@, key, fingerprint),
                             !.access_times = Put(@, key, t),
                             !.order = Append(@, key)]

add_pattern(pc, event, t) ==
    LET fingerprint == create_fingerprint(event, t)
        key == cache_key(fingerprint.function_name, fingerprint.module_name)
    IN  IF key \in DOMAIN pc.cache
        THEN [pc EXCEPT !.cache[key].hit_count = @ + 1,
                        !.cache[key].timestamp = t,
                        !.access_times[key] = t]
        ELSE LET pc1 == IF Cardinality(DOMAIN pc.cache) >= pattern_cache_max_size
                        THEN evict_lru(pc) ELSE pc
             IN  [pc1 EXCEPT !.cache = Put(@, key, fingerprint),
                             !.access_times = Put(@, key, t),
                             !.order = Append(@, key)]

\* the sweep goes by the access time instead of the timestamp
evict_expired_bad(pc, t) ==
    LET expired_keys == {key \in DOMAIN pc.cache :
                            t - pc.access_times[key] > ttl_seconds}
    IN  [pc EXCEPT !.cache = [k \in (DOMAIN pc.cache) \ expired_keys |-> pc.cache[k]],
                   !.access_times = [k \in (DOMAIN pc.access_times) \ expired_keys
                                        |-> pc.access_times[k]],
                   !.order = SelectSeq(@, LAMBDA k : k \notin expired_keys),
                   !.evictions = @ + Cardinality(expired_keys)]

\* PatternMemoryCache.clear: both maps emptied, the statistics kept
pattern_cache_clear(pc) ==
    [pc EXCEPT !.cache = EmptyDict, !.access_times = EmptyDict, !.order = <<>>]

evict_expired(pc, t) ==
    LET expired_keys == {key \in DOMAIN pc.cache :
                            t - pc.cache[key].timestamp > ttl_seconds}
    IN  [pc EXCEPT !.cache = [k \in (DOMAIN pc.cache) \ expired_keys |-> pc.cache[k]],
                   !.access_times = [k \in (DOMAIN pc.access_times) \ expired_keys
                                        |-> pc.access_times[k]],
                   !.order = SelectSeq(@, LAMBDA k : k \notin expired_keys),
                   !.evictions = @ + Cardinality(expired_keys)]

\* evicted_count, the value evict_expired returns: the evictions it counted
evicted_count(pc, t) == evict_expired(pc, t).evictions - pc.evictions

(***************************************************************************)
(* TraceStore.add_event: a ring buffer per "module.function".              *)
(***************************************************************************)
ring_append(q, x) ==
    IF Len(q) >= capacity_per_function THEN Append(Tail(q), x) ELSE Append(q, x)

trace_add_event(tr, event) ==
    LET key == profiler_key(event.function_name, event.module_name)
        old == IF key \in DOMAIN tr.buffers THEN tr.buffers[key] ELSE <<>>
    IN  [buffers |-> Put(tr.buffers, key, ring_append(old, event)),
         total_events |-> tr.total_events + 1]

(***************************************************************************)
(* AuditEvent and AuditStore.  A line of the log file is the JSON object   *)
(* of the event; isoformat / fromisoformat are the two conversions of the  *)
(* timestamp.  A signature is the value of hmac_sign, and <<>> is the      *)
(* empty signature of an event that was not signed.                        *)
(***************************************************************************)
AuditEvent(t, event_type, actor, action, result) ==
    [timestamp |-> t, event_type |-> event_type, actor |-> actor,
     action |-> action, result |-> result, signature |-> <<>>,
     target |-> None, anomaly_score |-> None, metadata |-> None]

isoformat(t) == <<"iso", t>>

fromisoformat(s) == s[2]

\* AuditEvent.to_json / from_json
to_json(event) == [event EXCEPT !.timestamp = isoformat(@)]

from_json(line) == [line EXCEPT !.timestamp = fromisoformat(@)]

\* AuditEvent.get_signable_data: every field but the signature, keys sorted
get_signable_data(event) ==
    [f \in (DOMAIN event) \ {"signature"} |->
        IF f = "timestamp" THEN isoformat(event[f]) ELSE event[f]]

log_event_bad(log, key, event) == Append(log, to_json(event))

log_event(log, key, event) ==
    Append(log, to_json([event EXCEPT
                           !.signature = hmac_sign(key, get_signable_data(event))]))

\* the events of the lines i..Len(log) that lie in the time range; a bound
\* that is not given is <<>>
RECURSIVE export_from(_, _, _, _)
export_from(log, i, start_time, end_time) ==
    IF i > Len(log) THEN <<>>
    ELSE LET event == from_json(log[i])
             rest == export_from(log, i + 1, start_time, end_time)
         IN  IF start_time # <<>> /\ event.timestamp < start_time[1] THEN rest
             ELSE IF end_time # <<>> /\ event.timestamp > end_time[1] THEN rest
             ELSE <<event>> \o rest

export_logs(log, start_time, end_time) == export_from(log, 1, start_time, end_time)

\* a verify_log_integrity that looks at the last line only
verify_log_integrity_bad(log, key) ==
    \/ log = <<>>
    \/ LET event == from_json(log[Len(log)])
       IN  verify_signature(key, get_signable_data(event), event.signature)

verify_log_integrity(log, key) ==
    \A i \in 1 .. Len(log) :
        LET event == from_json(log[i])
        IN  verify_signature(key, get_signable_data(event), event.signature)

get_event_count(log) == Len(log)

\* lines[-count:] if len(lines) > count else lines
get_latest_events(log, count) ==
    LET latest_lines == IF Len(log) > count /\ count > 0
                        THEN SubSeq(log, Len(log) - count + 1, Len(log))
                        ELSE log
    IN  [i \in 1 .. Len(latest_lines) |-> from_json(latest_lines[i])]

(***************************************************************************)
(* Decision.                                                               *)
(***************************************************************************)
Decision_allow(reason, anomaly_score) ==
    [action |-> "allow", reason |-> reason, anomaly_score |-> anomaly_score,
     detector_id |-> None]

Decision_block(reason, anomaly_score) ==
    [action |-> "block", reason |-> reason, anomaly_score |-> anomaly_score,
     detector_id |-> None]

(***************************************************************************)
(* BrainCore.  S is the state of one BrainCore and of its collaborators;   *)
(* every operation returns the new state st and the Decision.              *)
(***************************************************************************)
State ==
    [signing_key |-> signing_key, sv |-> sv, samples |-> samples,
     baselines |-> baselines, detectors |-> detectors, trace |-> trace,
     pcache |-> pcache, audit_log |-> audit_log,
     effector_count |-> effector_count, bc |-> bc]

soft_allow_threshold_low_bad == Max(anomaly_threshold - 2 * soft_allow_width, 0)

soft_allow_threshold_low == Max(anomaly_threshold - soft_allow_width, 0)

soft_allow_threshold_high == anomaly_threshold

log_decision(S, decision, event_type, t) ==
    [S EXCEPT !.audit_log =
        log_event(@, S.signing_key,
                  AuditEvent(t, event_type, "system", decision.action, "success"))]

log_security_alert(S, reason, t) ==
    [S EXCEPT !.audit_log =
        log_event(@, S.signing_key,
                  AuditEvent(t, "security_violation", "security_validator",
                             "block", reason))]

perform_maintenance(S, t) ==
    [S EXCEPT !.detectors = expire_old_detectors(@, t),
              !.pcache = evict_expired(@, t)]

\* core.py 128-146: the training branch
training_branch(S, event, t) ==
    LET smp == add_sample(S.samples, event)
        new_baseline == compute_baseline(smp, event.function_name,
                                         event.module_name, t)
        tbl == IF get_sample_count(smp, event.function_name, event.module_name)
                    >= min_samples
                  /\ new_baseline # NoBaseline
               THEN store_baseline(S.baselines, new_baseline)
               ELSE S.baselines
        decision == Decision_allow("Training mode", 0)
        S1 == log_decision([S EXCEPT !.samples = smp, !.baselines = tbl],
                           decision, "training", t)
    IN  [st |-> [S1 EXCEPT !.pcache = add_pattern(@, event, t)],
         decision |-> decision]

\* core.py 148-176: the decision of the scoring branch; coin is the outcome
\* of random.random() < soft_allow_probability
scoring_decision(S, event, baseline, coin, t) ==
    LET score == compute_anomaly_score(event, baseline)
    IN  IF score < soft_allow_threshold_low
        THEN [st |-> [S EXCEPT !.pcache = add_pattern(@, event, t)],
              decision |-> Decision_allow("Normal behavior", score)]
        ELSE IF score < soft_allow_threshold_high
        THEN IF coin
             THEN LET decision == Decision_allow("Soft-allow (borderline)", score)
                      S1 == log_decision([S EXCEPT !.bc.soft_allows = @ + 1],
                                         decision, "soft_allow", t)
                  IN  [st |-> [S1 EXCEPT !.pcache = add_pattern(@, event, t)],
                       decision |-> decision]
             ELSE [st |-> S,
                   decision |-> Decision_block("Borderline anomaly", score)]
        ELSE [st |-> S, decision |-> Decision_block("Anomaly detected", score)]

\* core.py 148-189: the scoring branch with the effector, the audit record
\* and the periodic maintenance
scoring_branch(S, event, baseline, coin, t) ==
    LET d == scoring_decision(S, event, baseline, coin, t)
        S1 == [d.st EXCEPT !.effector_count = @ + 1]
        S2 == log_decision(S1, d.decision, "detection", t)
        S3 == [S2 EXCEPT !.bc.events_processed = @ + 1]
    IN  [st |-> IF S3.bc.events_processed % maintenance_interval = 0
                THEN perform_maintenance(S3, t) ELSE S3,
         decision |-> d.decision]

process_event_bad(S, event, coin, t) ==
    LET cm == check_match(S.pcache, event, match_threshold, t)
    IN  IF cm.hit
        THEN LET decision == Decision_allow("Known legitimate pattern (cached)", 0)
             IN  [st |-> log_decision([S EXCEPT !.pcache = cm.pc,
                                                !.trace = trace_add_event(@, event),
                                                !.bc.cache_hits = @ + 1],
                                      decision, "cache_hit", t),
                  decision |-> decision]
        ELSE LET S1 == [S EXCEPT !.pcache = cm.pc,
                                 !.trace = trace_add_event(@, event)]
                 baseline == get_baseline(S1.baselines, event.function_name,
                                          event.module_name)
             IN  IF baseline = NoBaseline \/ ~is_sufficient(baseline)
                 THEN training_branch(S1, event, t)
                 ELSE scoring_branch(S1, event, baseline, coin, t)

process_event(S, event, coin, t) ==
    LET cm == check_match(S.pcache, event, match_threshold, t)
    IN  IF cm.hit
        THEN LET decision == Decision_allow("Known legitimate pattern (cached)", 0)
             IN  [st |-> log_decision([S EXCEPT !.pcache = cm.pc,
                                                !.bc.cache_hits = @ + 1],
                                      decision, "cache_hit", t),
                  decision |-> decision]
        ELSE LET S1 == [S EXCEPT !.pcache = cm.pc,
                                 !.trace = trace_add_event(@, event)]
                 baseline == get_baseline(S1.baselines, event.function_name,
                                          event.module_name)
             IN  IF baseline = NoBaseline \/ ~is_sufficient(baseline)
                 THEN training_branch(S1, event, t)
                 ELSE scoring_branch(S1, event, baseline, coin, t)

\* a process_signed_event that does not return after a rejection
process_signed_event_bad(S, signed_event, coin, t) ==
    LET vr == verify_event(S.sv, S.signing_key, signed_event, t)
        S0 == [S EXCEPT !.sv = vr.sv]
    IN  IF ~vr.valid
        THEN [st |-> process_event(
                        log_security_alert(
                           [S0 EXCEPT !.bc.security_violations = @ + 1],
                           vr.reason, t),
                        signed_event.event, coin, t).st,
              decision |-> Decision_block("Security violation: " \o vr.reason, 1000)]
        ELSE process_event(S0, signed_event.event, coin, t)

process_signed_event(S, signed_event, coin, t) ==
    LET vr == verify_event(S.sv, S.signing_key, signed_event, t)
        S0 == [S EXCEPT !.sv = vr.sv]
    IN  IF ~vr.valid
        THEN [st |-> log_security_alert(
                        [S0 EXCEPT !.bc.security_violations = @ + 1],
                        vr.reason, t),
              decision |-> Decision_block("Security violation: " \o vr.reason, 1000)]
        ELSE process_event(S0, signed_event.event, coin, t)

(***************************************************************************)
(* BrainCore.process_event with the accesses to the audit ledger and to    *)
(* the state store that can fail.  fault names the access the environment  *)
(* lets fail in this call (None: no access fails); the state carries in    *)
(* failed the access that did fail.  An exception leaves the statements    *)
(* before it done and ends the call without a Decision.                    *)
(***************************************************************************)
NoDecision == [none |-> TRUE]

AuditAccesses ==
    {"log_event:cache_hit", "log_event:training", "log_event:soft_allow",
     "log_event:detection"}

StoreAccesses == {"get_baseline", "store_baseline", "expire_old_detectors"}

fail(S, access) == [S EXCEPT !.failed = access]

Raise(S, error) == [st |-> S, decision |-> NoDecision, raised |-> error]

Return(S, decision) == [st |-> S, decision |-> decision, raised |-> None]

\* a _log_decision that swallows the error of the ledger
log_decision_io_bad(S, decision, event_type, t, fault) ==
    IF fault = "log_event:" \o event_type
    THEN [st |-> fail(S, fault), raised |-> None]
    ELSE [st |-> log_decision(S, decision, event_type, t), raised |-> None]

\* core.py 191-207 with audit_store.py 40-57: open() or write() raise OSError
log_decision_io(S, decision, event_type, t, fault) ==
    IF fault = "log_event:" \o event_type
    THEN [st |-> fail(S, fault), raised |-> "OSError"]
    ELSE [st |-> log_decision(S, decision, event_type, t), raised |-> None]

training_branch_io(S, event, t, fault) ==
    LET smp == add_sample(S.samples, event)
        S1 == [S EXCEPT !.samples = smp]
        new_baseline == compute_baseline(smp, event.function_name,
                                         event.module_name, t)
        stores == /\ get_sample_count(smp, event.function_name,
                                      event.module_name) >= min_samples
                  /\ new_baseline # NoBaseline
        decision == Decision_allow("Training mode", 0)
    IN  IF stores /\ fault = "store_baseline"
        THEN Raise(fail(S1, fault), "RuntimeError")
        ELSE LET S2 == IF stores
                       THEN [S1 EXCEPT !.baselines =
                                          store_baseline(@, new_baseline)]
                       ELSE S1
                 l == log_decision_io(S2, decision, "training", t, fault)
             IN  IF l.raised # None THEN Raise(l.st, l.raised)
                 ELSE Return([l.st EXCEPT !.pcache = add_pattern(@, event, t)],
                             decision)

scoring_decision_io(S, event, baseline, coin, t, fault) ==
    LET score == compute_anomaly_score(event, baseline)
    IN  IF score < soft_allow_threshold_low
        THEN Return([S EXCEPT !.pcache = add_pattern(@, event, t)],
                    Decision_allow("Normal behavior", score))
        ELSE IF score < soft_allow_threshold_high
        THEN IF coin
             THEN LET decision == Decision_allow("Soft-allow (borderline)", score)
                      l == log_decision_io([S EXCEPT !.bc.soft_allows = @ + 1],
                                           decision, "soft_allow", t, fault)
                  IN  IF l.raised # None THEN Raise(l.st, l.raised)
                      ELSE Return([l.st EXCEPT
                                      !.pcache = add_pattern(@, event, t)],
                                  decision)
             ELSE Return(S, Decision_block("Borderline anomaly", score))
        ELSE Return(S, Decision_block("Anomaly detected", score))

scoring_branch_io(S, event, baseline, coin, t, fault) ==
    LET d == scoring_decision_io(S, event, baseline, coin, t, fault)
    IN  IF d.raised # None THEN d
        ELSE LET S1 == [d.st EXCEPT !.effector_count = @ + 1]
                 l == log_decision_io(S1, d.decision, "detection", t, fault)
             IN  IF l.raised # None THEN Raise(l.st, l.raised)
                 ELSE LET S3 == [l.st EXCEPT !.bc.events_processed = @ + 1]
                      IN  IF S3.bc.events_processed % maintenance_interval = 0
                          THEN IF fault = "expire_old_detectors"
                               THEN Raise(fail(S3, fault), "RuntimeError")
                               ELSE Return(perform_maintenance(S3, t),
                                           d.decision)
                          ELSE Return(S3, d.decision)

process_event_io(S, event, coin, t, fault) ==
    LET cm == check_match(S.pcache, event, match_threshold, t)
    IN  IF cm.hit
        THEN LET decision == Decision_allow("Known legitimate pattern (cached)", 0)
                 l == log_decision_io([S EXCEPT !.pcache = cm.pc,
                                                !.bc.cache_hits = @ + 1],
                                      decision, "cache_hit", t, fault)
             IN  IF l.raised # None THEN Raise(l.st, l.raised)
                 ELSE Return(l.st, decision)
        ELSE LET S1 == [S EXCEPT !.pcache = cm.pc,
                                 !.trace = trace_add_event(@, event)]
             IN  IF fault = "get_baseline"
                 THEN Raise(fail(S1, fault), "RuntimeError")
                 ELSE LET baseline == get_baseline(S1.baselines,
                                                   event.function_name,
                                                   event.module_name)
                      IN  IF baseline = NoBaseline \/ ~is_sufficient(baseline)
                          THEN training_branch_io(S1, event, t, fault)
                          ELSE scoring_branch_io(S1, event, baseline, coin, t,
                                                 fault)

(***************************************************************************)
(* Inputs.  Two (function, module) pairs whose profiler keys coincide       *)
(* ("m.g" + "." + "f" = "m" + "." + "g.f") while their cache keys differ.  *)
(***************************************************************************)
PairA == <<"f", "m.g">>

PairB == <<"g.f", "m">>

TelemetryEvent(pair, duration_ms, arg_types) ==
    [function_name |-> pair[1], module_name |-> pair[2],
     duration_ms |-> duration_ms, arg_types |-> arg_types,
     resource_tags |-> "io"]

\* events submitted to process_event in Spec: against the stored profile
\* (mean 50, deviation 10.26) 50 is normal, 53 borderline, 55 and 500
\* anomalous; the borderline event without arguments misses a cached pattern
\* that was made from a call with one argument
Events ==
    {TelemetryEvent(PairA, d, <<"int">>) : d \in {50, 53, 55, 500}}
       \cup {TelemetryEvent(PairA, 53, <<>>)}

\* events that arrive signed in Spec
SignedPayloads ==
    {TelemetryEvent(PairA, 50, <<"int">>)}

\* the event every SignedEvent of SpecGuard carries
GuardPayload == TelemetryEvent(PairA, 50, <<"int">>)

Nonces == {"n1", "n2", "n3"}

\* age of a signed event when it is submitted: fresh, on the edge, expired
Ages == {0, 300, 301}

\* good: signed with the shared key; forged: signed with another key;
\* stale: a signature of the same event made for another timestamp
SigKinds == {"good", "forged", "stale"}

SignedEvent(event, nonce, timestamp, kind, key) ==
    [event |-> event, nonce |-> nonce, timestamp |-> timestamp,
     signature |->
        CASE kind = "good" -> hmac_sign(key, <<event, nonce, timestamp>>)
          [] kind = "forged" -> hmac_sign("k_other", <<event, nonce, timestamp>>)
          [] OTHER -> hmac_sign(key, <<event, nonce, timestamp - 1>>)]

SignedEvents(E, N, A, K, t, key) ==
    {SignedEvent(e, n, t - a, k, key) : e \in E, n \in N, a \in A, k \in K}

(***************************************************************************)
(* Initial states.  The profiler, the caches and the counters live in      *)
(* memory and start empty; the baselines table is a database that          *)
(* outlives the process, so a new BrainCore may find a profile that an     *)
(* earlier run persisted.                                                  *)
(***************************************************************************)
StoredSamples ==
    <<40, 60, 40, 60, 40, 60, 40, 60, 40, 60, 40, 60, 40, 60, 40, 60, 40, 60, 40, 60>>

StoredProfile ==
    compute_baseline(Put(EmptyDict, profiler_key("f", "m.g"), StoredSamples),
                     "f", "m.g", 0)

\* secrets.token_bytes(32), the n-th key generated by this installation; two
\* generated keys are never equal
token_bytes(n) == "key" \o ToString(n)

\* CryptoCore.get_key_fingerprint
get_key_fingerprint(key) == <<"sha256", key>>

\* Path.rename on POSIX: the target is replaced
rename(files, src, dst) ==
    IF src = dst THEN files ELSE Put(Del(files, src), dst, files[src])

\* CryptoCore(key_path): the key in the file, or a new key written to it
CryptoCore(K, key_path) ==
    IF key_path \in DOMAIN K.files
    THEN [ks |-> K, signing_key |-> K.files[key_path]]
    ELSE [ks |-> [K EXCEPT !.files = Put(@, key_path, token_bytes(K.next_key)),
                           !.next_key = @ + 1],
          signing_key |-> token_bytes(K.next_key)]

primary_key_path == "pic_keys/primary.key"

backup_key_path == "pic_keys/backup.key"

\* KeyManager.rotate_keys
rotate_keys(K) ==
    LET promoted == backup_key_path \in DOMAIN K.files
        K1 == IF promoted
              THEN [K EXCEPT !.files = Put(@, primary_key_path, @[backup_key_path])]
              ELSE K
        primary == IF promoted THEN CryptoCore(K1, primary_key_path).signing_key
                   ELSE K.km.primary_crypto
        K2 == [K1 EXCEPT !.files = Del(@, backup_key_path)]
        backup == CryptoCore(K2, backup_key_path)
    IN  [backup.ks EXCEPT !.km = [primary_crypto |-> primary,
                                  backup_crypto |-> backup.signing_key,
                                  rotations |-> K.km.rotations + 1]]

\* KeyManager.verify_with_any_key
verify_with_any_key(km, data, signature) ==
    IF verify_signature(km.primary_crypto, data, signature) THEN TRUE
    ELSE verify_signature(km.backup_crypto, data, signature)

\* KeyManager.sign_with_primary
sign_with_primary(km, data) == hmac_sign(km.primary_crypto, data)

\* CryptoCore.rotate_key(new_key_path) of the CryptoCore K.cc; raised names
\* the exception the call ends with
rotate_key(K, new_key_path) ==
    LET key_path == K.cc.key_path
        new_path == IF new_key_path = None THEN key_path \o ".new" ELSE new_key_path
        new_key == token_bytes(K.next_key)
        f1 == Put(K.files, new_path, new_key)
        backup_path == key_path \o ".old"
        f2 == IF key_path \in DOMAIN f1 THEN rename(f1, key_path, backup_path) ELSE f1
    IN  IF new_path \notin DOMAIN f2
        THEN [ks |-> [K EXCEPT !.files = f2, !.next_key = @ + 1],
              raised |-> "FileNotFoundError"]
        ELSE [ks |-> [K EXCEPT !.files = rename(f2, new_path, key_path),
                               !.next_key = @ + 1,
                               !.cc.signing_key = new_key],
              raised |-> None]

\* KeyManager() on an empty key directory and a CryptoCore on a file of its own
NewKeys ==
    LET p == CryptoCore([files |-> EmptyDict, next_key |-> 1], primary_key_path)
        b == CryptoCore(p.ks, backup_key_path)
        c == CryptoCore(b.ks, "test.key")
    IN  [files |-> c.ks.files, next_key |-> c.ks.next_key,
         km |-> [primary_crypto |-> p.signing_key, backup_crypto |-> b.signing_key,
                 rotations |-> 0],
         cc |-> [key_path |-> "test.key", signing_key |-> c.signing_key]]

\* BrainConnector.__init__ with the default configuration
NewConnector ==
    [fail_mode |-> "open", retry_attempts |-> retry_attempts_default,
     total_requests |-> 0, successful_requests |-> 0, failed_requests |-> 0,
     retries |-> 0]

\* cellagent.sampling_rate of the default configuration, in hundredths
(***************************************************************************)
(* RateLimiter: the counters of the current window, the throttling state   *)
(* and the statistics.  function_counters is a defaultdict(int): reading a  *)
(* missing name inserts it with 0.                                         *)
(***************************************************************************)
\* RateLimiter.__init__ at time t
NewRateLimiter(t) ==
    [global_counter |-> 0, function_counters |-> EmptyDict, window_start |-> t,
     throttled_functions |-> {}, throttling_active |-> FALSE,
     dropped_events |-> 0, total_checks |-> 0, total_allowed |-> 0,
     total_throttled |-> 0]

reset_window(rl, t) ==
    [rl EXCEPT !.global_counter = 0,
               !.function_counters = EmptyDict,
               !.throttled_functions = {},
               !.throttling_active = FALSE,
               !.dropped_events = 0,
               !.window_start = t]

\* the limiter after the first lines of check_rate: the call counted and the
\* window reset when it has run out
window_checked(rl, t) ==
    LET rl0 == [rl EXCEPT !.total_checks = @ + 1]
    IN  IF t - rl0.window_start >= window_seconds THEN reset_window(rl0, t) ELSE rl0

check_rate_bad(rl, function_name, t) ==
    LET rl1 == window_checked(rl, t)
    IN  IF rl1.global_counter > global_limit
        THEN [rl |-> [rl1 EXCEPT !.throttling_active = TRUE,
                                 !.total_throttled = @ + 1,
                                 !.dropped_events = @ + 1],
              allowed |-> FALSE]
        ELSE LET rl2 == [rl1 EXCEPT !.function_counters =
                            IF function_name \in DOMAIN @ THEN @
                            ELSE Put(@, function_name, 0)]
             IN  IF rl2.function_counters[function_name] >= per_function_limit
                 THEN [rl |-> [rl2 EXCEPT !.throttled_functions = @ \cup {function_name},
                                          !.total_throttled = @ + 1,
                                          !.dropped_events = @ + 1],
                       allowed |-> FALSE]
                 ELSE [rl |-> [rl2 EXCEPT !.global_counter = @ + 1,
                                          !.function_counters[function_name] = @ + 1,
                                          !.total_allowed = @ + 1],
                       allowed |-> TRUE]

\* RateLimiter.check_rate(function_name) at time t: the new limiter and the
\* answer
check_rate(rl, function_name, t) ==
    LET rl1 == window_checked(rl, t)
    IN  IF rl1.global_counter >= global_limit
        THEN [rl |-> [rl1 EXCEPT !.throttling_active = TRUE,
                                 !.total_throttled = @ + 1,
                                 !.dropped_events = @ + 1],
              allowed |-> FALSE]
        ELSE LET rl2 == [rl1 EXCEPT !.function_counters =
                            IF function_name \in DOMAIN @ THEN @
                            ELSE Put(@, function_name, 0)]
             IN  IF rl2.function_counters[function_name] >= per_function_limit
                 THEN [rl |-> [rl2 EXCEPT !.throttled_functions = @ \cup {function_name},
                                          !.total_throttled = @ + 1,
                                          !.dropped_events = @ + 1],
                       allowed |-> FALSE]
                 ELSE [rl |-> [rl2 EXCEPT !.global_counter = @ + 1,
                                          !.function_counters[function_name] = @ + 1,
                                          !.total_allowed = @ + 1],
                       allowed |-> TRUE]

sampling_rate_default == 10

latencies_maxlen == 1000

\* CellAgent.__init__; executed counts the calls of the wrapped function,
\* latencies the tracked brain latencies
NewAgent ==
    [observe_only |-> FALSE, brain_connector |-> FALSE,
     sampling_rate |-> sampling_rate_default, sample_counter |-> 0,
     total_events |-> 0, throttle_events |-> 0, latencies |-> 0,
     executed |-> 0, rate_limiter |-> NewRateLimiter(0)]

(***************************************************************************)
(* BrainConnector.  plan gives the outcome of each attempt: the access of  *)
(* process_event that fails in it, and whether the answer comes after the  *)
(* timeout.  Every attempt calls process_event on the state the attempts    *)
(* before it left.                                                         *)
(***************************************************************************)
\* Decision.block(reason, anomaly_score, detector_id=None) called with args
call_Decision_block(args) ==
    IF Len(args) < 2
    THEN [decision |-> NoDecision, raised |-> "TypeError"]
    ELSE [decision |-> Decision_block(args[1], args[2]), raised |-> None]

handle_failure(C, error) ==
    IF C.fail_mode = "open"
    THEN [decision |-> Decision_allow("Fail-open: " \o error, 0),
          raised |-> None]
    ELSE call_Decision_block(<<"Fail-closed: " \o error>>)

Sent(C, S, h) == [conn |-> C, st |-> S, decision |-> h.decision,
                  raised |-> h.raised]

\* the except clause of send_event on the last attempt
last_attempt_failed(C, S, error) ==
    LET C1 == [C EXCEPT !.failed_requests = @ + 1]
    IN  Sent(C1, S, handle_failure(C1, error))

RECURSIVE send_attempts(_, _, _, _, _, _, _)

\* what send_event does with the outcome r of one call of process_event
after_attempt(C, event, plan, attempt, coin, t, r) ==
    IF r.raised # None
    THEN IF attempt < C.retry_attempts - 1
         THEN send_attempts([C EXCEPT !.retries = @ + 1], r.st, event, plan,
                            attempt + 1, coin, t)
         ELSE last_attempt_failed(C, r.st, r.raised)
    ELSE IF plan[attempt + 1].slow
    THEN IF attempt < C.retry_attempts - 1
         THEN send_attempts([C EXCEPT !.retries = @ + 1], r.st, event, plan,
                            attempt + 1, coin, t)
         ELSE IF handle_failure(C, "BrainCore timeout").raised # None
              THEN last_attempt_failed(
                      C, r.st, handle_failure(C, "BrainCore timeout").raised)
              ELSE Sent(C, r.st, handle_failure(C, "BrainCore timeout"))
    ELSE Sent([C EXCEPT !.successful_requests = @ + 1], r.st,
              [decision |-> r.decision, raised |-> None])

send_attempts(C, S, event, plan, attempt, coin, t) ==
    IF attempt >= C.retry_attempts
    THEN Sent(C, S, handle_failure(C, "Unknown error"))
    ELSE after_attempt(C, event, plan, attempt, coin, t,
                       process_event_io(S, event, coin, t,
                                        plan[attempt + 1].fault))

send_event(C, S, event, plan, coin, t) ==
    send_attempts([C EXCEPT !.total_requests = @ + 1], S, event, plan, 0,
                  coin, t)

(***************************************************************************)
(* CellAgent.monitor: the wrapper around a monitored function.  throttled  *)
(* is the answer of the rate limiter, func_raises the outcome of the       *)
(* wrapped function.                                                       *)
(***************************************************************************)
sample_interval(sampling_rate) ==
    IF sampling_rate > 0 THEN 100 \div sampling_rate ELSE 1

\* func(*args, **kwargs)
call_func(A, func_raises) ==
    [agent |-> [A EXCEPT !.executed = @ + 1],
     raised |-> IF func_raises THEN "FuncError" ELSE None]

Wrapped(f, C, S, sent) ==
    [agent |-> f.agent, conn |-> C, st |-> S, raised |-> f.raised,
     sent |-> sent]

\* the inner try of the wrapper: an error of send_event, or the
\* SecurityException raised on a block Decision
brain_error(A, r) ==
    IF r.raised # None THEN r.raised
    ELSE IF ~A.observe_only /\ r.decision.action = "block"
         THEN "SecurityException"
         ELSE None

\* the wrapper once send_event has ended with r; the except clause of the
\* inner try turns every brain_error into Decision.allow("Brain error,
\* fail-open"), then the function runs and the finally clause buffers the event
after_send(A, r, func_raises) ==
    Wrapped([call_func(IF r.raised = None
                       THEN [A EXCEPT !.latencies = Min(latencies_maxlen, @ + 1)]
                       ELSE A,
                       func_raises)
                EXCEPT !.agent.total_events = @ + 1],
            r.conn, r.st,
            [connector |-> r.decision,
             connector_raised |-> r.raised,
             decision |-> IF brain_error(A, r) # None
                          THEN Decision_allow("Brain error, fail-open", 0)
                          ELSE r.decision])

sampled(A, C, S, pair, arg_types, plan, coin, t, func_raises) ==
    IF A.brain_connector
    THEN after_send(A, send_event(C, S, TelemetryEvent(pair, 0, arg_types),
                                  plan, coin, t),
                    func_raises)
    ELSE Wrapped([call_func(A, func_raises)
                     EXCEPT !.agent.total_events = @ + 1], C, S, NoDecision)

should_sample(A) == A.sample_counter % sample_interval(A.sampling_rate) = 0

wrapper(A, C, S, pair, arg_types, plan, coin, t, throttled, func_raises) ==
    IF throttled
    THEN Wrapped(call_func([A EXCEPT !.throttle_events = @ + 1], func_raises),
                 C, S, NoDecision)
    ELSE IF ~should_sample([A EXCEPT !.sample_counter = @ + 1])
    THEN Wrapped(call_func([A EXCEPT !.sample_counter = @ + 1], func_raises),
                 C, S, NoDecision)
    ELSE sampled([A EXCEPT !.sample_counter = @ + 1], C, S, pair, arg_types,
                 plan, coin, t, func_raises)

\* EventQueue.__init__ and BackpressureController.__init__; _lock is 0 when
\* the lock is free and the holding thread otherwise
NewQueue ==
    [queue |-> <<>>, lock |-> 0, total_enqueued |-> 0, total_dequeued |-> 0,
     total_dropped |-> 0]

NewController ==
    [backpressure_active |-> FALSE, last_utilization |-> 0, total_checks |-> 0,
     backpressure_activations |-> 0]

\* the threads that call into one shared object
Threads == 1 .. MaxThreads

InitCommon ==
    /\ now = 0
    /\ signing_key = "k0"
    /\ sv = [seen_nonces |-> {}, nonce_timestamps |-> <<>>,
             total_validations |-> 0, valid_events |-> 0,
             invalid_signatures |-> 0, replay_attacks |-> 0,
             expired_events |-> 0]
    /\ samples = EmptyDict
    /\ detectors = [d \in {"d1"} |-> [expires_at |-> <<300>>, is_active |-> TRUE]]
    /\ trace = [buffers |-> EmptyDict, total_events |-> 0]
    /\ pcache = [cache |-> EmptyDict, access_times |-> EmptyDict, order |-> <<>>,
                 hits |-> 0, misses |-> 0, evictions |-> 0]
    /\ audit_log = <<>>
    /\ effector_count = 0
    /\ bc = [events_processed |-> 0, security_violations |-> 0,
             soft_allows |-> 0, cache_hits |-> 0]
    /\ ret = [op |-> "init", at |-> 0]
    /\ calls = 0
    /\ ticks = 0
    /\ threads = [th \in Threads |-> [pc |-> "idle"]]
    /\ eq = NewQueue
    /\ bp = NewController
    /\ ks = NewKeys
    /\ conn = NewConnector
    /\ agent = NewAgent

InitFresh == InitCommon /\ baselines = EmptyDict

Init ==
    /\ InitCommon
    /\ baselines \in {EmptyDict, store_baseline(EmptyDict, StoredProfile)}

(***************************************************************************)
(* Actions.                                                                *)
(***************************************************************************)
\* the variables take the values of the state record S
Becomes(S) ==
    /\ sv' = S.sv
    /\ samples' = S.samples
    /\ baselines' = S.baselines
    /\ detectors' = S.detectors
    /\ trace' = S.trace
    /\ pcache' = S.pcache
    /\ audit_log' = S.audit_log
    /\ effector_count' = S.effector_count
    /\ bc' = S.bc

\* the clock advances by one of the steps D
Tick(D) ==
    /\ \E d \in D : now' = now + d
    /\ ticks' = ticks + 1
    /\ UNCHANGED <<signing_key, sv, samples, baselines, detectors, trace, pcache,
                   audit_log, effector_count, bc, ret, calls, threads, eq, bp,
                   ks, conn, agent>>

\* BrainCore.process_event(event), event drawn from E
ProcessEvent(E) ==
    /\ \E event \in E, coin \in BOOLEAN :
          LET r == process_event(State, event, coin, now)
          IN  /\ Becomes(r.st)
              /\ ret' = [op |-> "process_event", at |-> now, event |-> event,
                         decision |-> r.decision]
    /\ calls' = calls + 1
    /\ UNCHANGED <<now, signing_key, ticks, threads, eq, bp,
                   ks, conn, agent>>

\* BrainCore.process_signed_event(signed_event), signed_event drawn from SE
ProcessSignedEvent(SE) ==
    /\ \E signed_event \in SE, coin \in BOOLEAN :
          LET r == process_signed_event(State, signed_event, coin, now)
          IN  /\ Becomes(r.st)
              /\ ret' = [op |-> "process_signed_event", at |-> now,
                         event |-> signed_event.event,
                         signed_event |-> signed_event,
                         decision |-> r.decision]
    /\ calls' = calls + 1
    /\ UNCHANGED <<now, signing_key, ticks, threads, eq, bp,
                   ks, conn, agent>>

\* the SignedEvents that verify_event has accepted up to the call recorded in r
Accepted(r) == IF "accepted" \in DOMAIN r THEN r.accepted ELSE {}

\* SecurityValidator.verify_event(signed_event), signed_event drawn from SE
VerifyEvent(SE) ==
    /\ \E signed_event \in SE :
          LET r == verify_event(sv, signing_key, signed_event, now)
          IN  /\ sv' = r.sv
              /\ ret' = [op |-> "verify_event", at |-> now,
                         signed_event |-> signed_event,
                         valid |-> r.valid, reason |-> r.reason,
                         accepted |-> IF r.valid
                                      THEN Accepted(ret) \cup {signed_event}
                                      ELSE Accepted(ret)]
    /\ calls' = calls + 1
    /\ UNCHANGED <<now, signing_key, samples, baselines, detectors, trace, pcache,
                   audit_log, effector_count, bc, ticks, threads, eq, bp,
                   ks, conn, agent>>

\* SecurityValidator.cleanup_old_nonces()
CleanupOldNonces ==
    /\ sv' = cleanup_old_nonces(sv, now)
    /\ ret' = [op |-> "cleanup_old_nonces", at |-> now,
               removed |-> Len(sv.nonce_timestamps) - Len(sv'.nonce_timestamps),
               accepted |-> Accepted(ret)]
    /\ calls' = calls + 1
    /\ UNCHANGED <<now, signing_key, samples, baselines, detectors, trace, pcache,
                   audit_log, effector_count, bc, ticks, threads, eq, bp,
                   ks, conn, agent>>

(***************************************************************************)
(* Spec: one BrainCore called through process_event and                    *)
(* process_signed_event by one caller at a time.                           *)
(***************************************************************************)
Next ==
    \/ calls < MaxCalls /\ ProcessEvent(Events)
    \/ calls < MaxCalls
       /\ ProcessSignedEvent(SignedEvents(SignedPayloads, {"n1", "n2"}, {0, 301},
                                          {"good", "forged"}, now, signing_key))
    \/ ticks < MaxTicks /\ Tick({1801})

Spec == Init /\ [][Next]_vars

(***************************************************************************)
(* SpecGuard: one SecurityValidator called directly.                       *)
(***************************************************************************)
NextGuard ==
    \/ calls < MaxGuardCalls
       /\ VerifyEvent(SignedEvents({GuardPayload}, Nonces, Ages, SigKinds,
                                   now, signing_key))
    \/ calls < MaxGuardCalls /\ CleanupOldNonces
    \/ ticks < MaxGuardTicks /\ Tick({1, 300})

SpecGuard == InitFresh /\ [][NextGuard]_vars

(***************************************************************************)
(* Properties of the SecurityValidator (SpecGuard).                        *)
(***************************************************************************)
\* the transition is a call of op
IsCall(op) == calls' = calls + 1 /\ ret'.op = op

\* C1 as stated: of two SignedEvents with one nonce submitted to verify_event
\* one after the other, the second is rejected as a replay, whatever its
\* signature.
C1_AnySecondIsReplay ==
    [][(IsCall("verify_event") /\ ret.op = "verify_event"
        /\ ret'.signed_event.nonce = ret.signed_event.nonce)
       => (~ret'.valid /\ ret'.reason = "Replay attack detected")]_vars

\* C1 amended: when verify_event accepted the first of two SignedEvents with
\* one nonce and the second is submitted next, within the freshness window,
\* the second is rejected with "Replay attack detected", whatever its
\* signature, and its nonce stays in the seen-set.
C1_ReplayAfterAccepted ==
    [][(IsCall("verify_event") /\ ret.op = "verify_event" /\ ret.valid
        /\ ret'.signed_event.nonce = ret.signed_event.nonce
        /\ now - ret'.signed_event.timestamp <= nonce_expiry_seconds)
       => (/\ ~ret'.valid
           /\ ret'.reason = "Replay attack detected"
           /\ sv'.replay_attacks = sv.replay_attacks + 1
           /\ ret'.signed_event.nonce \in sv'.seen_nonces)]_vars

\* a second event with the nonce of an accepted one, carrying a signature
\* that does not verify, was rejected as a replay after the clock moved on
C1_Witness ==
    /\ ret.op = "verify_event"
    /\ ret.reason = "Replay attack detected"
    /\ ret.signed_event.signature
         # hmac_sign(signing_key, sign_data(ret.signed_event))
    /\ sv.valid_events = 1
    /\ sv.total_validations = 2
    /\ ret.at > 0

\* C3: a SignedEvent older than the freshness window is rejected as expired
\* whatever its nonce and signature, and the replay and signature checks are
\* not reached: only the expired counter moves.
C3_ExpiredRejectedFirst ==
    [][(IsCall("verify_event")
        /\ now - ret'.signed_event.timestamp > 300)
       => (/\ ~ret'.valid
           /\ ret'.reason = "Event expired"
           /\ sv' = [sv EXCEPT !.total_validations = @ + 1,
                               !.expired_events = @ + 1])]_vars

\* an expired event was rejected as expired although its nonce is in the
\* seen-set and its signature does not verify
C3_Witness ==
    /\ ret.op = "verify_event"
    /\ ret.reason = "Event expired"
    /\ ret.at - ret.signed_event.timestamp = 301
    /\ ret.signed_event.nonce \in sv.seen_nonces
    /\ ret.signed_event.signature
         # hmac_sign(signing_key, sign_data(ret.signed_event))

(***************************************************************************)
(* Properties of BrainCore (Spec).                                         *)
(***************************************************************************)
\* the last line of the audit log, parsed
LastAudit(log) == from_json(log[Len(log)])

\* the log grew by exactly n lines, the earlier ones untouched
Appended(n) ==
    /\ Len(audit_log') = Len(audit_log) + n
    /\ SubSeq(audit_log', 1, Len(audit_log)) = audit_log

\* C2: a SignedEvent with a fresh timestamp and an unseen nonce whose
\* signature does not match (event, nonce, timestamp) is blocked by
\* process_signed_event for the reason "Invalid signature", and the
\* security-violation counter grows by exactly 1 in that call.
C2_TamperedRejected ==
    [][(IsCall("process_signed_event")
        /\ now - ret'.signed_event.timestamp <= 300
        /\ ret'.signed_event.nonce \notin sv.seen_nonces
        /\ ret'.signed_event.signature
             # hmac_sign(signing_key, <<ret'.signed_event.event,
                                        ret'.signed_event.nonce,
                                        ret'.signed_event.timestamp>>))
       => (/\ ret'.decision.action = "block"
           /\ ret'.decision.reason = "Security violation: Invalid signature"
           /\ LastAudit(audit_log').result = "Invalid signature"
           /\ bc'.security_violations = bc.security_violations + 1
           /\ sv'.invalid_signatures = sv.invalid_signatures + 1
           /\ sv'.seen_nonces = sv.seen_nonces)]_vars

\* a tampered event was rejected after an earlier violation had been counted
C2_Witness ==
    /\ ret.op = "process_signed_event"
    /\ ret.decision.reason = "Security violation: Invalid signature"
    /\ sv.invalid_signatures = 1
    /\ bc.security_violations = 2

\* C4: when the validator rejects a SignedEvent, process_signed_event returns
\* block("Security violation: <reason>", 1.0), appends exactly one audit
\* record of type security_violation, and leaves the trace store, the
\* profiler samples, the baselines, the pattern cache, the effector count
\* and events_processed as they were.
C4_RejectionFrame ==
    [][(IsCall("process_signed_event") /\ sv'.valid_events = sv.valid_events)
       => (/\ \E reason \in {"Event expired", "Replay attack detected",
                             "Invalid signature"} :
                 /\ ret'.decision =
                       Decision_block("Security violation: " \o reason, 1000)
                 /\ LastAudit(audit_log').result = reason
           /\ Appended(1)
           /\ LastAudit(audit_log').event_type = "security_violation"
           /\ LastAudit(audit_log').action = "block"
           /\ bc'.security_violations = bc.security_violations + 1
           /\ bc'.events_processed = bc.events_processed
           /\ UNCHANGED <<trace, samples, baselines, pcache, effector_count>>)]_vars

\* a replayed event was rejected by a BrainCore that had scored an event and
\* holds a cached pattern
C4_Witness ==
    /\ ret.op = "process_signed_event"
    /\ ret.decision.reason = "Security violation: Replay attack detected"
    /\ bc.events_processed > 0
    /\ DOMAIN pcache.cache # {}

\* C7: in the scoring branch with threshold T = 65: a score >= T is blocked
\* as "Anomaly detected"; a score < T - 10 is allowed as "Normal behavior"
\* and its key is in the pattern cache afterwards; a score in between is
\* either soft-allowed (key in the cache afterwards) or blocked as
\* "Borderline anomaly".
C7_ScoreZones ==
    [][(IsCall("process_event")
        /\ ~check_match(pcache, ret'.event, 85, now).hit
        /\ get_baseline(baselines, ret'.event.function_name,
                        ret'.event.module_name) # NoBaseline)
       => LET baseline == get_baseline(baselines, ret'.event.function_name,
                                       ret'.event.module_name)
              score == compute_anomaly_score(ret'.event, baseline)
              key == cache_key(ret'.event.function_name, ret'.event.module_name)
          IN  /\ baseline.sample_count >= 20
              /\ score >= 65000
                   => ret'.decision = Decision_block("Anomaly detected", score)
              /\ score < 55000
                   => /\ ret'.decision = Decision_allow("Normal behavior", score)
                      /\ key \in DOMAIN pcache'.cache
              /\ (score >= 55000 /\ score < 65000)
                   => \/ /\ ret'.decision
                              = Decision_allow("Soft-allow (borderline)", score)
                         /\ key \in DOMAIN pcache'.cache
                      \/ /\ ret'.decision
                              = Decision_block("Borderline anomaly", score)
                         /\ pcache'.cache
                              = check_match(pcache, ret'.event, 85, now).pc.cache]_vars

\* a score inside the soft-allow zone was blocked as a borderline anomaly
C7_Witness ==
    /\ ret.op = "process_event"
    /\ ret.decision.reason = "Borderline anomaly"
    /\ ret.decision.anomaly_score >= 55000
    /\ ret.decision.anomaly_score < 65000

\* C9 as stated: every call of process_event or process_signed_event
\* appends exactly one record to the audit log.
C9_OneRecordPerDecision ==
    [][(IsCall("process_event") \/ IsCall("process_signed_event"))
       => Appended(1)]_vars

(***************************************************************************)
(* SpecConc: several threads call verify_event on one SecurityValidator.   *)
(* The class holds no lock, so another thread can run between the replay   *)
(* check of a call and its insertion of the nonce.                         *)
(***************************************************************************)
\* thread th enters verify_event(signed_event) and runs it up to the replay
\* check
ThreadCheck(th, SE) ==
    /\ threads[th].pc = "idle"
    /\ \E signed_event \in SE :
          LET c == verify_event_check(sv, signed_event, now)
          IN  /\ sv' = c.sv
              /\ threads' = [threads EXCEPT ![th] =
                    IF c.passed
                    THEN [pc |-> "verify", signed_event |-> signed_event]
                    ELSE [pc |-> "done", signed_event |-> signed_event,
                          valid |-> FALSE, reason |-> c.reason]]
    /\ UNCHANGED <<now, signing_key, samples, baselines, detectors, trace, pcache,
                   audit_log, effector_count, bc, ret, calls, ticks, eq, bp,
                   ks, conn, agent>>

\* thread th verifies the signature, inserts the nonce and returns
ThreadSign(th) ==
    /\ threads[th].pc = "verify"
    /\ LET r == verify_event_sign(sv, signing_key, threads[th].signed_event, now)
       IN  /\ sv' = r.sv
           /\ threads' = [threads EXCEPT ![th] =
                 [pc |-> "done", signed_event |-> threads[th].signed_event,
                  valid |-> r.valid, reason |-> r.reason]]
    /\ UNCHANGED <<now, signing_key, samples, baselines, detectors, trace, pcache,
                   audit_log, effector_count, bc, ret, calls, ticks, eq, bp,
                   ks, conn, agent>>

NextConc ==
    \/ \E th \in Threads :
          ThreadCheck(th, SignedEvents({GuardPayload}, {"n1", "n2"}, {0},
                                       {"good", "forged"}, now, signing_key))
    \/ \E th \in Threads : ThreadSign(th)

SpecConc == InitFresh /\ [][NextConc]_vars

\* C5 as stated: of the concurrent verify_event calls with fresh, correctly
\* signed SignedEvents that share one nonce, at most one returns valid.
C5_AtMostOneValid ==
    \A t1, t2 \in Threads :
        (/\ threads[t1].pc = "done" /\ threads[t1].valid
         /\ threads[t2].pc = "done" /\ threads[t2].valid
         /\ threads[t1].signed_event.nonce = threads[t2].signed_event.nonce)
        => t1 = t2

(***************************************************************************)
(* SpecScenario: the end-to-end scenario on a new BrainCore with default   *)
(* settings and an empty database: ScenarioCalls calls of one function     *)
(* with durations around 50 ms, then one call at 50 ms, then one at 500 ms.*)
(***************************************************************************)
AroundFifty == {48, 50, 52}

ScenarioTraining ==
    /\ calls < ScenarioCalls
    /\ ProcessEvent({TelemetryEvent(PairA, d, <<"int">>) : d \in AroundFifty})

ScenarioNormal ==
    /\ calls = ScenarioCalls
    /\ ProcessEvent({TelemetryEvent(PairA, 50, <<"int">>)})

ScenarioOutlier ==
    /\ calls = ScenarioCalls + 1
    /\ ProcessEvent({TelemetryEvent(PairA, 500, <<"int">>)})

NextScenario == ScenarioTraining \/ ScenarioNormal \/ ScenarioOutlier

SpecScenario == InitFresh /\ [][NextScenario]_vars

\* C6 as stated: each of the first 25 calls returns allow and a persisted
\* baseline of at least 20 samples exists after them; the 26th call (50 ms)
\* returns allow with a score below 40; the 27th call (500 ms) returns block
\* with a score of at least 95.
C6_EndToEnd ==
    /\ (calls \in 1 .. ScenarioCalls + 1) => ret.decision.action = "allow"
    /\ calls >= ScenarioCalls
         => LET baseline == get_baseline(baselines, PairA[1], PairA[2])
            IN  baseline # NoBaseline /\ baseline.sample_count >= 20
    /\ calls = ScenarioCalls + 1 => ret.decision.anomaly_score < 40000
    /\ calls = ScenarioCalls + 2
         => /\ ret.decision.action = "block"
            /\ ret.decision.anomaly_score >= 95000

(***************************************************************************)
(* SpecTrain: a BrainCore near the end of its training phase.  The warm-up *)
(* is WarmupCalls calls of process_event for one function; the calls after *)
(* the first differ from the cached pattern of the first in the number of  *)
(* arguments, so each of them reaches the training branch.  After it       *)
(* events of two (function, module) pairs whose profiler keys coincide     *)
(* arrive in any order.                                                    *)
(***************************************************************************)
WarmupEvent(i) ==
    IF i = 1 THEN TelemetryEvent(PairA, 50, <<"int">>)
    ELSE TelemetryEvent(PairA, IF i % 2 = 0 THEN 60 ELSE 40, <<>>)

\* the state after the first n calls of the warm-up, starting from S
RECURSIVE Warmup(_, _)
Warmup(S, n) ==
    IF n = 0 THEN S
    ELSE process_event(Warmup(S, n - 1), WarmupEvent(n), FALSE, 0).st

FreshState ==
    [sv |-> [seen_nonces |-> {}, nonce_timestamps |-> <<>>,
             total_validations |-> 0, valid_events |-> 0,
             invalid_signatures |-> 0, replay_attacks |-> 0,
             expired_events |-> 0],
     samples |-> EmptyDict, baselines |-> EmptyDict,
     detectors |-> [d \in {"d1"} |-> [expires_at |-> <<300>>, is_active |-> TRUE]],
     trace |-> [buffers |-> EmptyDict, total_events |-> 0],
     pcache |-> [cache |-> EmptyDict, access_times |-> EmptyDict, order |-> <<>>,
                 hits |-> 0, misses |-> 0, evictions |-> 0],
     audit_log |-> <<>>, effector_count |-> 0,
     bc |-> [events_processed |-> 0, security_violations |-> 0,
             soft_allows |-> 0, cache_hits |-> 0],
     signing_key |-> "k0"]

WarmState == Warmup(FreshState, WarmupCalls)

InitTrain ==
    /\ now = 0
    /\ signing_key = "k0"
    /\ sv = WarmState.sv
    /\ samples = WarmState.samples
    /\ baselines = WarmState.baselines
    /\ detectors = WarmState.detectors
    /\ trace = WarmState.trace
    /\ pcache = WarmState.pcache
    /\ audit_log = WarmState.audit_log
    /\ effector_count = WarmState.effector_count
    /\ bc = WarmState.bc
    /\ ret = [op |-> "process_event", at |-> 0, event |-> WarmupEvent(WarmupCalls),
              decision |-> Decision_allow("Training mode", 0)]
    /\ calls = WarmupCalls
    /\ ticks = 0
    /\ threads = [th \in Threads |-> [pc |-> "idle"]]
    /\ eq = NewQueue
    /\ bp = NewController
    /\ ks = NewKeys
    /\ conn = NewConnector
    /\ agent = NewAgent

TrainEvents ==
    {TelemetryEvent(p, d, a) : p \in {PairA, PairB}, d \in {40, 60},
                               a \in {<<"int">>, <<>>}}

NextTrain == calls < WarmupCalls + MaxTrainCalls /\ ProcessEvent(TrainEvents)

SpecTrain == InitTrain /\ [][NextTrain]_vars

\* the call about to return reached the training branch
InTraining ==
    /\ IsCall("process_event")
    /\ ~check_match(pcache, ret'.event, match_threshold, now).hit
    /\ LET baseline == get_baseline(baselines, ret'.event.function_name,
                                    ret'.event.module_name)
       IN  baseline = NoBaseline \/ baseline.sample_count < 20

\* C8 as stated: an event that reaches the training branch adds one sample
\* and returns allow ("Training mode"); a profile is persisted in that call
\* exactly when the sample count reaches 20, and the persisted profile is
\* sufficient; with a sufficient profile persisted no call for that function
\* returns "Training mode".
C8_TrainingUntilTwenty ==
    [][LET f == ret'.event.function_name
           m == ret'.event.module_name
       IN  /\ InTraining
                => /\ get_samples(samples', f, m)
                        = Append(get_samples(samples, f, m), ret'.event.duration_ms)
                   /\ ret'.decision = Decision_allow("Training mode", 0)
                   /\ (baselines' # baselines)
                        <=> get_sample_count(samples', f, m) = 20
                   /\ baselines' # baselines
                        => get_baseline(baselines', f, m).sample_count = 20
           /\ (IsCall("process_event") /\ ~InTraining)
                => ret'.decision.reason # "Training mode"]_vars

(***************************************************************************)
(* SpecAudit: one AuditStore called through its public operations.         *)
(* ret.logged is the number of log_event calls made so far.                *)
(***************************************************************************)
Logged(r) == IF "logged" \in DOMAIN r THEN r.logged ELSE 0

AuditEvents(t) ==
    {AuditEvent(t, ty, "system", a, "success") :
        ty \in {"detection", "security_violation"}, a \in {"allow", "block"}}

\* a bound of a time range: not given, or one of the instants
TimeBounds == {<<>>, <<0>>, <<1>>}

LogEvent ==
    /\ \E event \in AuditEvents(now) :
          /\ audit_log' = log_event(audit_log, signing_key, event)
          /\ ret' = [op |-> "log_event", at |-> now, event |-> event,
                     logged |-> Logged(ret) + 1]
    /\ calls' = calls + 1
    /\ UNCHANGED <<now, signing_key, sv, samples, baselines, detectors, trace,
                   pcache, effector_count, bc, ticks, threads, eq, bp,
                   ks, conn, agent>>

\* an operation that reads the log and returns result
AuditRead(op, result) ==
    /\ ret' = [op |-> op, at |-> now, result |-> result, logged |-> Logged(ret)]
    /\ calls' = calls + 1
    /\ UNCHANGED <<now, signing_key, sv, samples, baselines, detectors, trace,
                   pcache, audit_log, effector_count, bc, ticks, threads, eq, bp,
                   ks, conn, agent>>

ExportLogs ==
    \E start_time \in TimeBounds, end_time \in TimeBounds :
        AuditRead("export_logs", export_logs(audit_log, start_time, end_time))

VerifyLogIntegrity ==
    AuditRead("verify_log_integrity", verify_log_integrity(audit_log, signing_key))

GetEventCount == AuditRead("get_event_count", get_event_count(audit_log))

GetLatestEvents ==
    \E count \in 0 .. 2 :
        AuditRead("get_latest_events", get_latest_events(audit_log, count))

NextAudit ==
    \/ calls < MaxAuditCalls /\ LogEvent
    \/ calls < MaxAuditCalls /\ ExportLogs
    \/ calls < MaxAuditCalls /\ VerifyLogIntegrity
    \/ calls < MaxAuditCalls /\ GetEventCount
    \/ calls < MaxAuditCalls /\ GetLatestEvents
    \/ ticks < MaxTicks /\ Tick({1})

SpecAudit == InitFresh /\ [][NextAudit]_vars

\* every entry of an export carries a signature that verify_signature accepts
AllVerify(events) ==
    \A i \in 1 .. Len(events) :
        verify_signature(signing_key, get_signable_data(events[i]),
                         events[i].signature)

\* C10: after log_event(e) an export without bounds ends with an entry for e
\* whose signature verify_signature accepts; log_event appends one line and
\* leaves the earlier lines as they were; verify_log_integrity, export_logs,
\* get_event_count and get_latest_events leave the log unchanged; and the
\* event count is always the number of log_event calls made.
C10_AuditAppendOnly ==
    /\ [](/\ get_event_count(audit_log) = Logged(ret)
          /\ Len(export_logs(audit_log, <<>>, <<>>)) = Logged(ret)
          /\ AllVerify(export_logs(audit_log, <<>>, <<>>))
          /\ verify_log_integrity(audit_log, signing_key))
    /\ [][/\ IsCall("log_event")
             => /\ Appended(1)
                /\ LET out == export_logs(audit_log', <<>>, <<>>)
                       e == out[Len(out)]
                   IN  /\ [e EXCEPT !.signature = <<>>] = ret'.event
                       /\ e.signature
                            = hmac_sign(signing_key, get_signable_data(ret'.event))
          /\ (calls' = calls + 1 /\ ret'.op # "log_event")
             => audit_log' = audit_log
          /\ Len(audit_log') >= Len(audit_log)
          /\ SubSeq(audit_log', 1, Len(audit_log)) = audit_log]_vars

\* two events were logged at different instants and a later export without
\* bounds returned both
C10_Witness ==
    /\ ret.op = "export_logs"
    /\ Len(ret.result) = 2
    /\ ret.logged = 2
    /\ ret.result[1].timestamp # ret.result[2].timestamp
    /\ AllVerify(ret.result)

(***************************************************************************)
(* SpecTamper: an AuditStore whose log file is also written from outside.  *)
(* Tamper rewrites one field of one stored line, or its signature, without *)
(* the signing key.                                                        *)
(***************************************************************************)
\* the values an outside writer can put into the fields of a line
TamperValues ==
    [result |-> {"success", "failure"}, action |-> {"allow", "block"},
     target |-> {None, "other"}, timestamp |-> {isoformat(0), isoformat(1)}]

Tamper ==
    /\ \E i \in 1 .. Len(audit_log) :
          \/ \E f \in DOMAIN TamperValues : \E v \in TamperValues[f] :
                /\ v # audit_log[i][f]
                /\ audit_log' = [audit_log EXCEPT ![i][f] = v]
                /\ ret' = [op |-> "tamper", at |-> now, line |-> i, field |-> f]
          \/ /\ audit_log' = [audit_log EXCEPT ![i].signature =
                                 hmac_sign("k_other", get_signable_data(from_json(audit_log[i])))]
             /\ ret' = [op |-> "tamper", at |-> now, line |-> i,
                        field |-> "signature"]
    /\ calls' = calls + 1
    /\ UNCHANGED <<now, signing_key, sv, samples, baselines, detectors, trace,
                   pcache, effector_count, bc, ticks, threads, eq, bp,
                   ks, conn, agent>>

NextTamper ==
    \/ calls < MaxTamperSteps /\ LogEvent
    \/ calls < MaxTamperSteps /\ VerifyLogIntegrity
    \/ calls < MaxTamperSteps /\ Tamper
    \/ ticks < MaxTicks /\ Tick({1})

SpecTamper == InitFresh /\ [][NextTamper]_vars

\* the stored line carries, field by field, what its signature was made over
\* with the key
AsSigned(line, key) ==
    /\ line.signature # <<>>
    /\ line.signature[1] = "hmac"
    /\ line.signature[2] = key
    /\ \A f \in (DOMAIN line) \ {"signature"} : line.signature[3][f] = line[f]

\* C11: verify_log_integrity returns true exactly when every stored line
\* carries a signature made with the key over its other fields as stored:
\* true after log_event calls alone, false once a field or a signature of
\* any line has been rewritten to differ from what was signed.
C11_IntegrityIffAllSigned ==
    [][/\ IsCall("verify_log_integrity")
          => (ret'.result <=> \A i \in 1 .. Len(audit_log) :
                                  AsSigned(audit_log[i], signing_key))
       /\ IsCall("log_event")
          => AsSigned(audit_log'[Len(audit_log')], signing_key)
       /\ (IsCall("tamper") /\ AsSigned(audit_log[ret'.line], signing_key))
          => /\ ~AsSigned(audit_log'[ret'.line], signing_key)
             /\ ~verify_log_integrity(audit_log', signing_key)]_vars

\* the integrity check failed on a log of two lines of which only the first
\* was rewritten
C11_Witness ==
    /\ ret.op = "verify_log_integrity"
    /\ ~ret.result
    /\ Len(audit_log) = 2
    /\ ~AsSigned(audit_log[1], signing_key)
    /\ AsSigned(audit_log[2], signing_key)

\* C12 as stated: after any sequence of verify_event calls the seen-set holds
\* at most max_nonce_cache nonces.
C12_SeenSetBounded == Cardinality(sv.seen_nonces) <= max_nonce_cache

(***************************************************************************)
(* EventQueue and BackpressureController.  A utilization is in thousandths *)
(* and a sampling rate in hundredths.  The queued events are numbered by   *)
(* their arrival.                                                          *)
(***************************************************************************)
\* deque(maxlen=max_size).append
queue_append(queue, event) ==
    IF Len(queue) >= queue_max_size
    THEN IF queue_max_size = 0 THEN <<>> ELSE Append(Tail(queue), event)
    ELSE Append(queue, event)

\* an enqueue that refuses the new event when the queue is full
enqueue_bad(q, event) ==
    IF Len(q.queue) >= queue_max_size
    THEN [q |-> [q EXCEPT !.total_enqueued = @ + 1, !.total_dropped = @ + 1],
          result |-> FALSE]
    ELSE [q |-> [q EXCEPT !.queue = Append(@, event), !.total_enqueued = @ + 1],
          result |-> TRUE]

\* the locked body of enqueue
enqueue(q, event) ==
    LET was_full == Len(q.queue) >= queue_max_size
        q1 == [q EXCEPT !.queue = queue_append(@, event),
                        !.total_enqueued = @ + 1]
    IN  IF was_full
        THEN [q |-> [q1 EXCEPT !.total_dropped = @ + 1], result |-> FALSE]
        ELSE [q |-> q1, result |-> TRUE]

dequeue(q) ==
    IF q.queue # <<>>
    THEN [q |-> [q EXCEPT !.queue = Tail(@), !.total_dequeued = @ + 1],
          result |-> <<Head(q.queue)>>]
    ELSE [q |-> q, result |-> <<>>]

peek(q) == IF q.queue # <<>> THEN <<Head(q.queue)>> ELSE <<>>

size(q) == Len(q.queue)

is_empty(q) == Len(q.queue) = 0

is_full(q) == Len(q.queue) >= queue_max_size

get_utilization(q) == (1000 * Len(q.queue)) \div queue_max_size

has_backpressure(q) == get_utilization(q) >= backpressure_threshold

clear(q) == [q |-> [q EXCEPT !.queue = <<>>], result |-> Len(q.queue)]

\* a rate table whose band at 0.80 excludes the boundary
get_recommended_rate_bad(utilization) ==
    IF utilization >= 950 THEN 10
    ELSE IF utilization >= 900 THEN 25
    ELSE IF utilization > 800 THEN 50
    ELSE IF utilization >= 700 THEN 75
    ELSE 100

get_recommended_rate(utilization) ==
    IF utilization >= 950 THEN 10
    ELSE IF utilization >= 900 THEN 25
    ELSE IF utilization >= 800 THEN 50
    ELSE IF utilization >= 700 THEN 75
    ELSE 100

\* the result of a queue operation that only reads, under the lock
queue_read(q, op) ==
    CASE op = "peek" -> peek(q)
      [] op = "size" -> size(q)
      [] op = "is_empty" -> is_empty(q)
      [] op = "is_full" -> is_full(q)
      [] op = "get_utilization" -> get_utilization(q)
      [] op = "has_backpressure" -> has_backpressure(q)

ReadKind(op) ==
    CASE op = "peek" -> "events"
      [] op \in {"size", "get_utilization"} -> "number"
      [] OTHER -> "flag"

QueueReads ==
    {"peek", "size", "is_empty", "is_full", "get_utilization", "has_backpressure"}

(***************************************************************************)
(* SpecQueue: threads call one EventQueue and its BackpressureController.  *)
(* An operation whose whole body runs under the lock is one step, taken    *)
(* when the lock is free.  check_and_signal and get_stats acquire the lock *)
(* more than once: a thread inside them waits with pc = "wait_lock" and    *)
(* goes on when the lock is free.  threading.Lock is not reentrant.        *)
(***************************************************************************)
\* what the steps of SpecQueue leave alone
QueueFrame ==
    UNCHANGED <<now, signing_key, sv, samples, baselines, detectors, trace,
                pcache, audit_log, effector_count, bc, ticks, ks, conn, agent>>

\* a call returns result; the field of ret that holds it is named after the
\* kind of value returned
QueueReturn(op, kind, result) ==
    /\ ret' = [op |-> op, at |-> now] @@ (kind :> result)
    /\ calls' = calls + 1

Enqueue(th) ==
    /\ threads[th].pc = "idle" /\ eq.lock = 0
    /\ LET r == enqueue(eq, eq.total_enqueued + 1)
       IN  eq' = r.q /\ QueueReturn("enqueue", "accepted", r.result)
    /\ UNCHANGED <<threads, bp>>
    /\ QueueFrame

Dequeue(th) ==
    /\ threads[th].pc = "idle" /\ eq.lock = 0
    /\ LET r == dequeue(eq)
       IN  eq' = r.q /\ QueueReturn("dequeue", "events", r.result)
    /\ UNCHANGED <<threads, bp>>
    /\ QueueFrame

Clear(th) ==
    /\ threads[th].pc = "idle" /\ eq.lock = 0
    /\ LET r == clear(eq)
       IN  eq' = r.q /\ QueueReturn("clear", "number", r.result)
    /\ UNCHANGED <<threads, bp>>
    /\ QueueFrame

QueueRead(th) ==
    /\ threads[th].pc = "idle" /\ eq.lock = 0
    /\ \E op \in QueueReads : QueueReturn(op, ReadKind(op), queue_read(eq, op))
    /\ UNCHANGED <<threads, bp, eq>>
    /\ QueueFrame

\* check_and_signal up to its first use of the queue
CheckBegin(th) ==
    /\ threads[th].pc = "idle"
    /\ bp' = [bp EXCEPT !.total_checks = @ + 1]
    /\ threads' = [threads EXCEPT ![th] =
                      [pc |-> "wait_lock", op |-> "check_and_signal", stage |-> 1]]
    /\ UNCHANGED <<eq, ret, calls>>
    /\ QueueFrame

\* EventQueue.get_stats, called directly or by BackpressureController.get_stats:
\* the lock is taken and get_utilization is called under it
GetStatsEnter(th) ==
    /\ threads[th].pc = "idle" /\ eq.lock = 0
    /\ \E op \in {"get_stats", "controller_get_stats"} :
          threads' = [threads EXCEPT ![th] =
                         [pc |-> "wait_lock", op |-> op, stage |-> 1]]
    /\ eq' = [eq EXCEPT !.lock = th]
    /\ UNCHANGED <<bp, ret, calls>>
    /\ QueueFrame

\* the signal check_and_signal returns
BackpressureSignal(active, utilization) ==
    [active |-> active, recommended_rate |-> get_recommended_rate(utilization),
     queue_utilization |-> utilization,
     reason |-> IF active THEN "Queue utilization high" ELSE "Normal operation"]

\* a waiting thread gets the lock, runs the locked part and releases it
LockedStep(th) ==
    /\ threads[th].pc = "wait_lock" /\ eq.lock = 0
    /\ LET t == threads[th]
       IN  IF t.stage = 1
           THEN \* get_utilization()
                /\ threads' = [threads EXCEPT ![th] =
                      [t EXCEPT !.stage = 2] @@ [utilization |-> get_utilization(eq)]]
                /\ bp' = IF t.op = "check_and_signal"
                         THEN [bp EXCEPT !.last_utilization = get_utilization(eq)]
                         ELSE bp
                /\ UNCHANGED <<eq, ret, calls>>
           ELSE \* has_backpressure()
                LET active == has_backpressure(eq)
                IN  /\ threads' = [threads EXCEPT ![th] = [pc |-> "idle"]]
                    /\ IF t.op = "check_and_signal"
                       THEN /\ bp' = [bp EXCEPT
                                  !.backpressure_active = active,
                                  !.backpressure_activations =
                                     IF active /\ ~bp.backpressure_active
                                     THEN @ + 1 ELSE @]
                            /\ QueueReturn(t.op, "signal", BackpressureSignal(active, t.utilization))
                            /\ eq' = eq
                       ELSE /\ bp' = bp
                            /\ QueueReturn(t.op, "stats", [size |-> Len(eq.queue),
                                    utilization |-> t.utilization,
                                    backpressure_active |-> active,
                                    total_enqueued |-> eq.total_enqueued,
                                    total_dequeued |-> eq.total_dequeued,
                                    total_dropped |-> eq.total_dropped])
                            /\ eq' = [eq EXCEPT !.lock = 0]
    /\ QueueFrame

QueueThreads == 1 .. MaxQueueThreads

NextQueue ==
    \/ \E th \in QueueThreads : calls < MaxQueueCalls /\ Enqueue(th)
    \/ \E th \in QueueThreads : calls < MaxQueueCalls /\ Dequeue(th)
    \/ \E th \in QueueThreads : calls < MaxQueueCalls /\ Clear(th)
    \/ \E th \in QueueThreads : calls < MaxQueueCalls /\ QueueRead(th)
    \/ \E th \in QueueThreads : calls < MaxQueueCalls /\ CheckBegin(th)
    \/ \E th \in QueueThreads : calls < MaxQueueCalls /\ GetStatsEnter(th)
    \/ \E th \in QueueThreads : LockedStep(th)

\* a thread that can run does run
SpecQueue ==
    InitFresh /\ [][NextQueue]_vars /\ \A th \in QueueThreads : WF_vars(LockedStep(th))

\* C13: enqueue on a full queue drops the oldest event, stores the new one
\* and returns false; below capacity it stores the event and returns true;
\* the queue never holds more than max_size events, keeps them in arrival
\* order, and dequeue returns the oldest one held.
C13_DropOldest ==
    /\ [](/\ size(eq) <= queue_max_size
          /\ \A i \in 1 .. Len(eq.queue) - 1 : eq.queue[i] < eq.queue[i + 1])
    /\ [][/\ IsCall("enqueue")
             => LET event == eq.total_enqueued + 1
                IN  IF Len(eq.queue) = queue_max_size
                    THEN /\ ret'.accepted = FALSE
                         /\ eq'.queue = Append(Tail(eq.queue), event)
                         /\ eq'.total_dropped = eq.total_dropped + 1
                    ELSE /\ ret'.accepted = TRUE
                         /\ eq'.queue = Append(eq.queue, event)
                         /\ eq'.total_dropped = eq.total_dropped
          /\ IsCall("dequeue")
             => IF eq.queue = <<>>
                THEN ret'.events = <<>> /\ eq' = eq
                ELSE ret'.events = <<eq.queue[1]>> /\ eq'.queue = Tail(eq.queue)]_vars

\* the first event was dropped by an enqueue on the full queue and the
\* dequeue that followed returned the second
C13_Witness ==
    /\ ret.op = "dequeue"
    /\ ret.events = <<2>>
    /\ eq.total_dropped = 1
    /\ Len(eq.queue) = queue_max_size - 1

\* C14 as stated: every call of an operation of the queue or of its
\* controller that waits for the queue's lock gets it, releases it and
\* returns.
C14_EveryCallReturns ==
    \A th \in QueueThreads :
        (threads[th].pc = "wait_lock") ~> (threads[th].pc = "idle")

\* C15 as stated: in every signal check_and_signal returns, active is true
\* exactly when queue_utilization >= backpressure_threshold (0.8), and
\* recommended_rate is the rate of queue_utilization.
C15_SignalFromOneState ==
    [][IsCall("check_and_signal")
       => /\ ret'.signal.active <=> (ret'.signal.queue_utilization >= 800)
          /\ ret'.signal.recommended_rate
               = get_recommended_rate(ret'.signal.queue_utilization)]_vars

(***************************************************************************)
(* SpecRate: get_recommended_rate applied to utilizations 0.000 .. 1.100.  *)
(***************************************************************************)
GetRecommendedRate ==
    /\ \E utilization \in 0 .. MaxUtilization :
          ret' = [op |-> "get_recommended_rate", at |-> now,
                  utilization |-> utilization,
                  result |-> get_recommended_rate(utilization)]
    /\ calls' = calls + 1
    /\ UNCHANGED <<threads, bp, eq>>
    /\ QueueFrame

NextRate == calls < MaxRateCalls /\ GetRecommendedRate

SpecRate == InitFresh /\ [][NextRate]_vars

\* C16: the recommended rate is 0.10 for u >= 0.95, 0.25 for 0.90 <= u < 0.95,
\* 0.50 for 0.80 <= u < 0.90, 0.75 for 0.70 <= u < 0.80 and 1.00 below 0.70,
\* and of two utilizations the larger never gets the larger rate.
C16_RateBands ==
    [][IsCall("get_recommended_rate")
       => LET u == ret'.utilization
              r == ret'.result
          IN  /\ u >= 950 => r = 10
              /\ (900 <= u /\ u < 950) => r = 25
              /\ (800 <= u /\ u < 900) => r = 50
              /\ (700 <= u /\ u < 800) => r = 75
              /\ u < 700 => r = 100
              /\ (ret.op = "get_recommended_rate" /\ ret.utilization <= u)
                    => ret.result >= r]_vars

\* the rate of the boundary 0.80 was computed after the rate of 0.799
C16_Witness ==
    /\ ret.op = "get_recommended_rate"
    /\ ret.utilization = 800
    /\ ret.result = 50
    /\ calls = 2

(***************************************************************************)
(* SpecCache: the pattern cache on its own.  Patterns are added for three  *)
(* keys into a cache of pattern_cache_max_size entries, events are checked *)
(* against it, the sweep runs, and the clock advances by a second or by    *)
(* the TTL, so that an entry is seen at the ages 0, 1, 1800 and 1801.      *)
(***************************************************************************)
PairC == <<"h", "m">>

CachePairs == {PairA, PairB, PairC}

\* events whose pattern is added: a call of 100 ms with one int argument for
\* each key, and another call of the first key
AddEvents ==
    {TelemetryEvent(p, 100, <<"int">>) : p \in CachePairs}
       \cup {TelemetryEvent(PairA, 140, <<>>)}

\* events checked: against a pattern made from 100 ms (range 90..110, band
\* 72..132) the durations are inside the range, inside the band and outside
\* both; the argument types are equal, of equal arity, and of another arity
CheckEvents ==
    {TelemetryEvent(PairA, d, a) : d \in {100, 120, 140},
                                   a \in {<<"int">>, <<"str">>, <<>>}}
       \cup {TelemetryEvent(PairB, 100, <<"int">>)}

CacheFrame ==
    UNCHANGED <<signing_key, sv, samples, baselines, detectors, trace, audit_log,
                effector_count, bc, threads, eq, bp,
                   ks, conn, agent>>

\* PatternMemoryCache.add_pattern(event)
AddPattern ==
    /\ \E event \in AddEvents :
          /\ pcache' = add_pattern(pcache, event, now)
          /\ ret' = [op |-> "add_pattern", at |-> now, event |-> event]
    /\ calls' = calls + 1
    /\ UNCHANGED <<now, ticks>>
    /\ CacheFrame

\* PatternMemoryCache.check_match(event) with the default threshold
CheckMatch ==
    /\ \E event \in CheckEvents :
          LET r == check_match(pcache, event, match_threshold, now)
          IN  /\ pcache' = r.pc
              /\ ret' = [op |-> "check_match", at |-> now, event |-> event,
                         hit |-> r.hit]
    /\ calls' = calls + 1
    /\ UNCHANGED <<now, ticks>>
    /\ CacheFrame

\* PatternMemoryCache.evict_expired()
EvictExpired ==
    /\ pcache' = evict_expired(pcache, now)
    /\ ret' = [op |-> "evict_expired", at |-> now,
               count |-> evicted_count(pcache, now)]
    /\ calls' = calls + 1
    /\ UNCHANGED <<now, ticks>>
    /\ CacheFrame

\* PatternMemoryCache.clear()
ClearCache ==
    /\ pcache' = pattern_cache_clear(pcache)
    /\ ret' = [op |-> "clear", at |-> now]
    /\ calls' = calls + 1
    /\ UNCHANGED <<now, ticks>>
    /\ CacheFrame

NextCache ==
    \/ calls < MaxCacheCalls /\ AddPattern
    \/ calls < MaxCacheCalls /\ CheckMatch
    \/ calls < MaxCacheCalls /\ EvictExpired
    \/ calls < MaxCacheCalls /\ ClearCache
    \/ ticks < MaxCacheTicks /\ Tick({1, ttl_seconds})

SpecCache == InitFresh /\ [][NextCache]_vars

\* C17: check_match(event, 0.85) answers true exactly when an entry is stored
\* under the event's function:module key, the entry is at most 1800 s old and
\* the weighted similarity (function 0.30, module 0.20, duration in the stored
\* range 0.30 or in the 20% band 0.15, argument types equal 0.20 or of equal
\* arity 0.10) is at least 0.85; an entry found past 1800 s is removed and the
\* answer is false; no other entry changes.
C17_CheckMatchIff ==
    [][IsCall("check_match") =>
          LET event == ret'.event
              key == event.function_name \o ":" \o event.module_name
              found == key \in DOMAIN pcache.cache
              entry == pcache.cache[key]
              fresh == now - entry.timestamp <= 1800
              ms == event.duration_ms * 1000
              in_range == entry.duration_min <= ms /\ ms <= entry.duration_max
              in_band == (entry.duration_min * 80) \div 100 <= ms
                            /\ ms <= (entry.duration_max * 120) \div 100
              weighted ==
                   (IF event.function_name = entry.function_name THEN 30 ELSE 0)
                 + (IF event.module_name = entry.module_name THEN 20 ELSE 0)
                 + (IF in_range THEN 30 ELSE IF in_band THEN 15 ELSE 0)
                 + (IF event.arg_types = entry.arg_types THEN 20
                    ELSE IF Len(event.arg_types) = Len(entry.arg_types) THEN 10
                    ELSE 0)
          IN  /\ ret'.hit <=> (found /\ fresh /\ weighted >= 85)
              /\ (found /\ ~fresh) =>
                     /\ ~ret'.hit
                     /\ DOMAIN pcache'.cache = (DOMAIN pcache.cache) \ {key}
              /\ (found /\ fresh) => DOMAIN pcache'.cache = DOMAIN pcache.cache
              /\ \A k \in (DOMAIN pcache.cache) \ {key} :
                     /\ k \in DOMAIN pcache'.cache
                     /\ pcache'.cache[k] = pcache.cache[k]
      ]_vars

\* a hit on both edges: the entry is exactly 1800 s old and the similarity is
\* exactly 0.85 (duration in the band, argument types equal)
C17_Witness ==
    /\ ret.op = "check_match"
    /\ ret.hit
    /\ ret.event.duration_ms = 120
    /\ ret.event.arg_types = <<"int">>
    /\ now - pcache.cache[cache_key(ret.event.function_name,
                                    ret.event.module_name)].timestamp = 1800

\* C18: add_pattern for a key already cached sets that entry's timestamp to
\* the time of the call and adds one to its hit count, keeping its other
\* fields; for a new key in a cache that holds max_size entries, an entry
\* with the smallest access time is removed and the new fingerprint is
\* inserted; the other entries do not change and the cache never holds more
\* than max_size entries.
C18_AddPatternRefreshOrEvict ==
    /\ [](Cardinality(DOMAIN pcache.cache) <= pattern_cache_max_size)
    /\ [][IsCall("add_pattern") =>
             LET event == ret'.event
                 key == event.function_name \o ":" \o event.module_name
                 old == DOMAIN pcache.cache
             IN  IF key \in old
                 THEN /\ DOMAIN pcache'.cache = old
                      /\ pcache'.cache[key] =
                            [pcache.cache[key] EXCEPT !.timestamp = now,
                                                      !.hit_count = @ + 1]
                      /\ \A k \in old \ {key} : pcache'.cache[k] = pcache.cache[k]
                 ELSE /\ IF Cardinality(old) >= pattern_cache_max_size
                         THEN \E v \in old :
                                 /\ \A k \in old : pcache.access_times[v]
                                                      <= pcache.access_times[k]
                                 /\ DOMAIN pcache'.cache = (old \ {v}) \cup {key}
                         ELSE DOMAIN pcache'.cache = old \cup {key}
                      /\ pcache'.cache[key].timestamp = now
                      /\ pcache'.cache[key].hit_count = 1
                      /\ pcache'.cache[key].duration_min = event.duration_ms * 900
                      /\ pcache'.cache[key].duration_max = event.duration_ms * 1100
                      /\ pcache'.cache[key].arg_types = event.arg_types
                      /\ \A k \in (DOMAIN pcache'.cache) \ {key} :
                            pcache'.cache[k] = pcache.cache[k]
         ]_vars

\* the first key was added again with another duration: it kept its range and
\* got a later access time than the second key, so in the full cache the
\* second key was evicted for the third
C18_Witness ==
    /\ ret.op = "add_pattern"
    /\ ret.event = TelemetryEvent(PairC, 100, <<"int">>)
    /\ pcache.evictions = 1
    /\ pcache.order = <<cache_key("f", "m.g"), cache_key("h", "m")>>
    /\ pcache.cache[cache_key("f", "m.g")].duration_max = 110000
    /\ pcache.cache[cache_key("f", "m.g")].hit_count = 2
    /\ pcache.cache[cache_key("f", "m.g")].timestamp = 1

\* C19: a check_match that answers true sets the matched entry's timestamp to
\* the time of the match and adds one to its hit count, so that the entry's
\* TTL runs from its latest match.
C19_MatchRefreshesTimestamp ==
    [][(IsCall("check_match") /\ ret'.hit) =>
          LET key == ret'.event.function_name \o ":" \o ret'.event.module_name
          IN  /\ pcache'.cache[key].timestamp = now
              /\ pcache'.cache[key].hit_count = pcache.cache[key].hit_count + 1
      ]_vars

\* C20: evict_expired removes exactly the entries older than 1800 s by their
\* timestamp, whatever their access time, leaves the other entries and their
\* access times as they were, and returns the number of entries removed.
C20_SweepByAge ==
    [][IsCall("evict_expired") =>
          LET gone == {k \in DOMAIN pcache.cache :
                          now - pcache.cache[k].timestamp > 1800}
              kept == (DOMAIN pcache.cache) \ gone
          IN  /\ DOMAIN pcache'.cache = kept
              /\ DOMAIN pcache'.access_times = kept
              /\ \A k \in kept : /\ pcache'.cache[k] = pcache.cache[k]
                                 /\ pcache'.access_times[k] = pcache.access_times[k]
              /\ ret'.count = Cardinality(gone)
      ]_vars

\* a sweep at 1801 s removed the entry made at 0 s, matched at 1 s, and kept
\* the entry made at 1 s, which is exactly 1800 s old
C20_Witness ==
    /\ ret.op = "evict_expired"
    /\ ret.count = 1
    /\ now = 1801
    /\ pcache.hits = 1
    /\ DOMAIN pcache.cache = {cache_key("g.f", "m")}
    /\ pcache.cache[cache_key("g.f", "m")].timestamp = 1
    /\ pcache.cache[cache_key("g.f", "m")].hit_count = 1

(***************************************************************************)
(* SpecCacheConc: the pattern cache called from several threads.           *)
(* PatternMemoryCache has no lock; a thread runs one statement of a method *)
(* at a time and another thread may run between two statements.  A thread  *)
(* record is [pc |-> "idle"], [pc |-> "raised", ...] when the call raised  *)
(* KeyError to its caller, or the position inside the method with its      *)
(* locals.  order follows the insertion order of _access_times.            *)
(***************************************************************************)
ConcEvents == {TelemetryEvent(p, 100, <<"int">>) : p \in CachePairs}

CacheThreads == 1 .. MaxCacheThreads

\* self._access_times[key] = t
access_set(pc, key, t) ==
    [pc EXCEPT !.access_times = Put(@, key, t),
               !.order = IF key \in DOMAIN pc.access_times THEN @ ELSE Append(@, key)]

\* del self._access_times[key]
access_del(pc, key) ==
    [pc EXCEPT !.access_times = Del(@, key), !.order = remove_key(@, key)]

\* a statement raised KeyError
raised(t) == [pc |-> "raised", op |-> t.op, at |-> t.pc]

idle == [pc |-> "idle"]

\* the outcomes of the next statement of thread record t on the cache pc
cache_step(pc, t, time) ==
    CASE t.pc = "check_match" ->
           \* if key in self._cache:
           IF t.key \in DOMAIN pc.cache
           THEN {[pc |-> pc, t |-> [t EXCEPT !.pc = "cm_read"]]}
           ELSE {[pc |-> [pc EXCEPT !.misses = @ + 1], t |-> idle]}
      [] t.pc = "cm_read" ->
           \* pattern = self._cache[key]; expired?; pattern.matches(event)?
           IF t.key \notin DOMAIN pc.cache
           THEN {[pc |-> pc, t |-> raised(t)]}
           ELSE IF time - pc.cache[t.key].timestamp > ttl_seconds
           THEN {[pc |-> pc, t |-> [t EXCEPT !.pc = "cm_del_cache"]]}
           ELSE IF matches(pc.cache[t.key], t.event, match_threshold)
           THEN {[pc |-> [pc EXCEPT !.hits = @ + 1],
                  t |-> [t EXCEPT !.pc = "cm_touch"]]}
           ELSE {[pc |-> [pc EXCEPT !.misses = @ + 1], t |-> idle]}
      [] t.pc = "cm_touch" ->
           \* self._access_times[key] = time.time(); pattern.hit_count += 1
           {[pc |-> IF t.key \in DOMAIN pc.cache
                    THEN [access_set(pc, t.key, time)
                             EXCEPT !.cache[t.key].hit_count = @ + 1]
                    ELSE access_set(pc, t.key, time),
             t |-> idle]}
      [] t.pc = "cm_del_cache" ->
           \* del self._cache[key]
           IF t.key \notin DOMAIN pc.cache
           THEN {[pc |-> pc, t |-> raised(t)]}
           ELSE {[pc |-> [pc EXCEPT !.cache = Del(@, t.key)],
                  t |-> [t EXCEPT !.pc = "cm_del_access"]]}
      [] t.pc = "cm_del_access" ->
           \* del self._access_times[key]; self._misses += 1
           IF t.key \notin DOMAIN pc.access_times
           THEN {[pc |-> pc, t |-> raised(t)]}
           ELSE {[pc |-> [access_del(pc, t.key) EXCEPT !.misses = @ + 1],
                  t |-> idle]}
      [] t.pc = "add_pattern" ->
           \* if key in self._cache:
           IF t.key \in DOMAIN pc.cache
           THEN {[pc |-> pc, t |-> [t EXCEPT !.pc = "ap_upd"]]}
           ELSE {[pc |-> pc, t |-> [t EXCEPT !.pc = "ap_len"]]}
      [] t.pc = "ap_upd" ->
           \* self._cache[key].hit_count += 1; self._cache[key].timestamp = ...
           IF t.key \notin DOMAIN pc.cache
           THEN {[pc |-> pc, t |-> raised(t)]}
           ELSE {[pc |-> [pc EXCEPT !.cache[t.key].hit_count = @ + 1,
                                    !.cache[t.key].timestamp = time],
                  t |-> [t EXCEPT !.pc = "ap_upd_access"]]}
      [] t.pc = "ap_upd_access" ->
           {[pc |-> access_set(pc, t.key, time), t |-> idle]}
      [] t.pc = "ap_len" ->
           \* if len(self._cache) >= self.max_size:
           IF Cardinality(DOMAIN pc.cache) >= pattern_cache_max_size
           THEN {[pc |-> pc, t |-> [t EXCEPT !.pc = "ap_evict"]]}
           ELSE {[pc |-> pc, t |-> [t EXCEPT !.pc = "ap_ins"]]}
      [] t.pc = "ap_evict" ->
           \* _evict_lru: if not self._access_times: return; lru_key = min(...)
           IF DOMAIN pc.access_times = {}
           THEN {[pc |-> pc, t |-> [t EXCEPT !.pc = "ap_ins"]]}
           ELSE {[pc |-> pc,
                  t |-> [t EXCEPT !.pc = "ap_evict_cache", !.lru = lru_key(pc)]]}
      [] t.pc = "ap_evict_cache" ->
           \* del self._cache[lru_key]
           IF t.lru \notin DOMAIN pc.cache
           THEN {[pc |-> pc, t |-> raised(t)]}
           ELSE {[pc |-> [pc EXCEPT !.cache = Del(@, t.lru)],
                  t |-> [t EXCEPT !.pc = "ap_evict_access"]]}
      [] t.pc = "ap_evict_access" ->
           \* del self._access_times[lru_key]; self._evictions += 1
           IF t.lru \notin DOMAIN pc.access_times
           THEN {[pc |-> pc, t |-> raised(t)]}
           ELSE {[pc |-> [access_del(pc, t.lru) EXCEPT !.evictions = @ + 1],
                  t |-> [t EXCEPT !.pc = "ap_ins"]]}
      [] t.pc = "ap_ins" ->
           \* self._cache[key] = fingerprint
           {[pc |-> [pc EXCEPT !.cache = Put(@, t.key, create_fingerprint(t.event, time))],
             t |-> [t EXCEPT !.pc = "ap_ins_access"]]}
      [] t.pc = "ap_ins_access" ->
           {[pc |-> access_set(pc, t.key, time), t |-> idle]}
      [] t.pc = "evict_expired" ->
           \* expired_keys = [key for key, pattern in self._cache.items() if ...]
           LET expired_keys == {key \in DOMAIN pc.cache :
                                   time - pc.cache[key].timestamp > ttl_seconds}
           IN  {[pc |-> pc,
                 t |-> [t EXCEPT !.pc = "ee_loop", !.keys = expired_keys,
                                 !.count = Cardinality(expired_keys)]]}
      [] t.pc = "ee_loop" ->
           \* for key in expired_keys: del self._cache[key]
           IF t.keys = {}
           THEN {[pc |-> [pc EXCEPT !.evictions = @ + t.count], t |-> idle]}
           ELSE {IF key \notin DOMAIN pc.cache
                 THEN [pc |-> pc, t |-> raised(t)]
                 ELSE [pc |-> [pc EXCEPT !.cache = Del(@, key)],
                       t |-> [t EXCEPT !.pc = "ee_access", !.lru = key]]
                 : key \in t.keys}
      [] OTHER ->
           \* t.pc = "ee_access": del self._access_times[key]
           IF t.lru \notin DOMAIN pc.access_times
           THEN {[pc |-> pc, t |-> raised(t)]}
           ELSE {[pc |-> access_del(pc, t.lru),
                  t |-> [t EXCEPT !.pc = "ee_loop", !.keys = @ \ {t.lru}]]}

ConcFrame ==
    UNCHANGED <<now, signing_key, sv, samples, baselines, detectors, trace,
                audit_log, effector_count, bc, ret, ticks, eq, bp,
                   ks, conn, agent>>

\* a thread calls add_pattern(event), check_match(event) or evict_expired()
CacheCall(th) ==
    /\ threads[th].pc = "idle"
    /\ \E op \in {"add_pattern", "check_match", "evict_expired"}, event \in ConcEvents :
          threads' = [threads EXCEPT ![th] =
                         [pc |-> op, op |-> op, event |-> event,
                          key |-> cache_key(event.function_name, event.module_name),
                          lru |-> "", keys |-> {}, count |-> 0]]
    /\ calls' = calls + 1
    /\ UNCHANGED pcache
    /\ ConcFrame

\* a thread inside a call runs its next statement
CacheStep(th) ==
    /\ threads[th].pc \notin {"idle", "raised"}
    /\ \E o \in cache_step(pcache, threads[th], now) :
          /\ pcache' = o.pc
          /\ threads' = [threads EXCEPT ![th] = o.t]
    /\ UNCHANGED calls
    /\ ConcFrame

NextCacheConc ==
    \/ \E th \in CacheThreads : calls < MaxConcCalls /\ CacheCall(th)
    \/ \E th \in CacheThreads : CacheStep(th)
    \/ ticks < MaxTicks /\ Tick({ttl_seconds + 1})

SpecCacheConc == InitFresh /\ [][NextCacheConc]_vars

\* C21: no call of check_match, add_pattern or evict_expired made while other
\* threads are inside the cache raises an error to its caller, and whenever
\* no call is in progress the cache map and the access-time map have the same
\* keys and at most max_size of them.
C21_ConcurrentCacheSafe ==
    /\ \A th \in CacheThreads : threads[th].pc # "raised"
    /\ (\A th \in CacheThreads : threads[th].pc = "idle") =>
          /\ DOMAIN pcache.cache = DOMAIN pcache.access_times
          /\ Cardinality(DOMAIN pcache.cache) <= pattern_cache_max_size

(***************************************************************************)
(* SpecMaint: a BrainCore that finds a persisted profile first scores      *)
(* MaintWarmupCalls anomalous events (blocked, so never cached) and then   *)
(* receives any mix of events that are scored, that hit the cache, and     *)
(* that train another function.  calls counts every call of process_event. *)
(* The persisted detector d1 is stale from 300 s on.                       *)
(***************************************************************************)
InitMaint ==
    /\ InitCommon
    /\ baselines = store_baseline(EmptyDict, StoredProfile)

MaintScored ==
    /\ calls < MaintWarmupCalls
    /\ ProcessEvent({TelemetryEvent(PairA, 500, <<"int">>)})

\* 500 ms is scored and blocked; 50 ms is scored, allowed and cached, and hits
\* the cache from then on; function h has no profile and is trained, cached,
\* and hits the cache from then on
MaintEvents ==
    {TelemetryEvent(PairA, 500, <<"int">>), TelemetryEvent(PairA, 50, <<"int">>),
     TelemetryEvent(PairC, 50, <<"int">>)}

MaintMix ==
    /\ calls >= MaintWarmupCalls
    /\ calls < MaintWarmupCalls + MaxMaintCalls
    /\ ProcessEvent(MaintEvents)

NextMaint ==
    \/ MaintScored
    \/ MaintMix
    \/ calls >= MaintWarmupCalls /\ ticks < MaxTicks /\ Tick({300})

SpecMaint == InitMaint /\ [][NextMaint]_vars

\* C22: the call of process_event that brings the number of processed events
\* to a multiple of 100 runs the maintenance, whatever the mix of cache-hit,
\* training and scored events: a persisted detector that is stale at that
\* call is inactive after it.
C22_MaintenanceEveryHundred ==
    [][(IsCall("process_event") /\ calls' % 100 = 0 /\ now >= 300)
          => ~detectors'["d1"].is_active]_vars

(***************************************************************************)
(* SpecKeys: a KeyManager on its key directory and a CryptoCore on a key   *)
(* file of its own.  Keys are rotated, data is signed and signatures made  *)
(* with any key generated so far, or with a foreign key, are verified.     *)
(***************************************************************************)
KeyData == {"d1", "d2"}

\* every key generated so far and a key from elsewhere
KnownKeys(K) == {token_bytes(n) : n \in 1 .. (K.next_key - 1)} \cup {"k_other"}

\* the temporary file rotate_key is given: the default, another file, the
\* key file itself, the backup file
NewKeyPaths == {None, "spare.key", "test.key", "test.key.old"}

KeysFrame ==
    UNCHANGED <<now, signing_key, sv, samples, baselines, detectors, trace, pcache,
                audit_log, effector_count, bc, ticks, threads, eq, bp, conn, agent>>

RotateKeys ==
    /\ ks' = rotate_keys(ks)
    /\ ret' = [op |-> "rotate_keys", at |-> now]
    /\ calls' = calls + 1
    /\ KeysFrame

VerifyWithAnyKey ==
    /\ \E data \in KeyData, key \in KnownKeys(ks) :
          ret' = [op |-> "verify_with_any_key", at |-> now, data |-> data,
                  key |-> key,
                  valid |-> verify_with_any_key(ks.km, data, hmac_sign(key, data))]
    /\ calls' = calls + 1
    /\ UNCHANGED ks
    /\ KeysFrame

RotateKey ==
    /\ \E new_key_path \in NewKeyPaths :
          LET r == rotate_key(ks, new_key_path)
          IN  /\ ks' = r.ks
              /\ ret' = [op |-> "rotate_key", at |-> now,
                         new_key_path |-> new_key_path, raised |-> r.raised]
    /\ calls' = calls + 1
    /\ KeysFrame

\* CryptoCore.verify_signature on the CryptoCore of its own
CryptoVerify ==
    /\ \E data \in KeyData, key \in KnownKeys(ks) :
          ret' = [op |-> "verify_signature", at |-> now, data |-> data,
                  key |-> key,
                  valid |-> verify_signature(ks.cc.signing_key, data,
                                             hmac_sign(key, data))]
    /\ calls' = calls + 1
    /\ UNCHANGED ks
    /\ KeysFrame

NextKeys ==
    \/ calls < MaxKeyCalls /\ RotateKeys
    \/ calls < MaxKeyCalls /\ VerifyWithAnyKey
    \/ calls < MaxKeyCalls /\ RotateKey
    \/ calls < MaxKeyCalls /\ CryptoVerify

SpecKeys == InitFresh /\ [][NextKeys]_vars

\* C23: after rotate_keys a signature made with the key that was primary
\* before the rotation is accepted by verify_with_any_key.
C23_PreviousKeyStillVerifies ==
    [][IsCall("rotate_keys") =>
          \A data \in KeyData :
             verify_with_any_key(ks'.km, data, sign_with_primary(ks.km, data))
      ]_vars

\* C24: after rotate_key the key fingerprint differs from the one before, a
\* signature made before the rotation is rejected, a signature made after it
\* is accepted, and the previous key is in the backup file.
C24_RotateKeyReplacesAndBacksUp ==
    [][IsCall("rotate_key") =>
          /\ get_key_fingerprint(ks'.cc.signing_key)
                # get_key_fingerprint(ks.cc.signing_key)
          /\ \A data \in KeyData :
                /\ ~verify_signature(ks'.cc.signing_key, data,
                                     hmac_sign(ks.cc.signing_key, data))
                /\ verify_signature(ks'.cc.signing_key, data,
                                    hmac_sign(ks'.cc.signing_key, data))
          /\ (ks.cc.key_path \o ".old") \in DOMAIN ks'.files
          /\ ks'.files[ks.cc.key_path \o ".old"] = ks.cc.signing_key
      ]_vars

\* ---------------------------------------------------------------------
\* AnomalyDetector as a pure function: scores and candidates
\* ---------------------------------------------------------------------

MaxScoreCalls == 2

MaxDuration == 100

\* baselines the detector is given: mean and standard deviation in
\* thousandths of a millisecond, a constant series (std = 0) included
ScoreMeans == {50000, 50500}

ScoreStds == {0, 1000, 10000}

ScoreBaseline(mean, std) ==
    [StoredProfile EXCEPT !.mean_duration_ms = mean, !.std_duration_ms = std]

ScoreFrame ==
    UNCHANGED <<now, signing_key, sv, samples, baselines, detectors, trace,
                pcache, audit_log, effector_count, bc, ticks, threads, eq, bp,
                ks, conn, agent>>

ComputeAnomalyScore ==
    /\ \E duration_ms \in 0 .. MaxDuration, mean \in ScoreMeans,
          std \in ScoreStds :
          ret' = [op |-> "compute_anomaly_score", at |-> now,
                  duration_ms |-> duration_ms, mean |-> mean, std |-> std,
                  score |-> compute_anomaly_score(
                                TelemetryEvent(PairA, duration_ms, <<>>),
                                ScoreBaseline(mean, std))]
    /\ calls' = calls + 1
    /\ ScoreFrame

\* scores handed to create_candidate: around the candidate threshold and at
\* both ends of the scale
CandidateScores == {0, 50000, 79999, 80000, 80001, 97740, 100000}

CandidatePairs == {PairA, PairB}

CandidateSampleCounts == {20, 100}

CreateCandidate ==
    /\ \E pair \in CandidatePairs, duration_ms \in {0, 50, MaxDuration},
          mean \in ScoreMeans, std \in ScoreStds,
          sample_count \in CandidateSampleCounts, score \in CandidateScores :
          LET event == TelemetryEvent(pair, duration_ms, <<>>)
              baseline == [ScoreBaseline(mean, std) EXCEPT
                              !.sample_count = sample_count]
          IN  ret' = [op |-> "create_candidate", at |-> now,
                      event |-> event, baseline |-> baseline,
                      score |-> score,
                      candidate |-> create_candidate(event, baseline, score)]
    /\ calls' = calls + 1
    /\ ScoreFrame

NextScore ==
    \/ calls < MaxScoreCalls /\ ComputeAnomalyScore
    \/ calls < MaxScoreCalls /\ CreateCandidate

SpecScore == InitFresh /\ [][NextScore]_vars

deviation(r) == Abs(r.duration_ms * 1000 - r.mean)

\* C25: every score lies in [0, 100], and of two observations scored against
\* the same baseline the one with the strictly greater absolute deviation
\* from the baseline mean never gets the smaller score.
C25_ScoreMonotone ==
    [][IsCall("compute_anomaly_score")
       => /\ 0 <= ret'.score /\ ret'.score <= 100000
          /\ (/\ ret.op = "compute_anomaly_score"
              /\ ret.mean = ret'.mean
              /\ ret.std = ret'.std)
                => /\ deviation(ret') > deviation(ret)
                         => ret'.score >= ret.score
                   /\ deviation(ret) > deviation(ret')
                         => ret.score >= ret'.score]_vars

C25_Witness ==
    /\ ret.op = "compute_anomaly_score"
    /\ calls = 2
    /\ ret.std = 10000
    /\ ret.mean = 50000
    /\ ret.duration_ms = 71
    /\ ret.score = 97740

ProfileWarmup == 18

MaxProfileCalls == 4

ProfilePairs == {PairA, PairB, PairC}

ProfileDurations == {40, 50, 60}

\* the series each (function, module) was given, as its caller counts them;
\* the profiler starts with the first ProfileWarmup samples of function f
NoSeries == [pair \in ProfilePairs |-> <<>>]

WarmSeries == [NoSeries EXCEPT ![PairA] = SubSeq(StoredSamples, 1, ProfileWarmup)]

InitProfile ==
    /\ now = 0
    /\ signing_key = FreshState.signing_key
    /\ sv = FreshState.sv
    /\ samples = Put(EmptyDict, profiler_key(PairA[1], PairA[2]),
                     WarmSeries[PairA])
    /\ baselines = FreshState.baselines
    /\ detectors = FreshState.detectors
    /\ trace = FreshState.trace
    /\ pcache = FreshState.pcache
    /\ audit_log = FreshState.audit_log
    /\ effector_count = FreshState.effector_count
    /\ bc = FreshState.bc
    /\ ret = [op |-> "add_sample", at |-> 0, added |-> WarmSeries,
              event |-> TelemetryEvent(PairA, StoredSamples[ProfileWarmup],
                                       <<>>)]
    /\ calls = ProfileWarmup
    /\ ticks = 0
    /\ threads = [th \in Threads |-> [pc |-> "idle"]]
    /\ eq = NewQueue
    /\ bp = NewController
    /\ ks = NewKeys
    /\ conn = NewConnector
    /\ agent = NewAgent

ProfileFrame ==
    UNCHANGED <<now, signing_key, sv, baselines, detectors, trace, pcache,
                audit_log, effector_count, bc, ticks, threads, eq, bp, ks,
                conn, agent>>

AddSample ==
    /\ \E pair \in ProfilePairs, duration_ms \in ProfileDurations :
          LET event == TelemetryEvent(pair, duration_ms, <<>>)
          IN  /\ samples' = add_sample(samples, event)
              /\ ret' = [op |-> "add_sample", at |-> now, event |-> event,
                         added |-> [ret.added EXCEPT
                                       ![pair] = Append(@, duration_ms)]]
    /\ calls' = calls + 1
    /\ ProfileFrame

ComputeBaseline ==
    /\ \E pair \in ProfilePairs :
          ret' = [op |-> "compute_baseline", at |-> now, pair |-> pair,
                  added |-> ret.added,
                  profile |-> compute_baseline(samples, pair[1], pair[2], now)]
    /\ calls' = calls + 1
    /\ UNCHANGED samples
    /\ ProfileFrame

NextProfile ==
    \/ calls < ProfileWarmup + MaxProfileCalls /\ AddSample
    \/ calls < ProfileWarmup + MaxProfileCalls /\ ComputeBaseline

SpecProfile == InitProfile /\ [][NextProfile]_vars

Elements(s) == {s[i] : i \in DOMAIN s}

\* C27: compute_baseline(function, module) returns none when fewer than
\* min_samples samples were added for that pair, and otherwise a profile whose
\* sample_count is the number of samples added (at least min_samples), whose
\* standard deviation is not negative and whose p50, p95 and p99 are elements
\* of the sample series with p50 <= p95 <= p99.
C27_BaselineFromOwnSamples ==
    [][IsCall("compute_baseline")
       => LET profile == ret'.profile
              series == ret'.added[ret'.pair]
          IN  /\ (Len(series) < min_samples) <=> (profile = NoBaseline)
              /\ profile # NoBaseline
                    => /\ profile.sample_count = Len(series)
                       /\ profile.sample_count >= min_samples
                       /\ profile.std_duration_ms >= 0
                       /\ profile.p50_duration_ms \in Elements(series)
                       /\ profile.p95_duration_ms \in Elements(series)
                       /\ profile.p99_duration_ms \in Elements(series)
                       /\ profile.p50_duration_ms <= profile.p95_duration_ms
                       /\ profile.p95_duration_ms <= profile.p99_duration_ms
      ]_vars

\* ---------------------------------------------------------------------
\* BrainCore.process_event when the ledger or the state store fails
\* ---------------------------------------------------------------------

MaxFaultCalls == 3

Faults == {None} \cup AuditAccesses \cup StoreAccesses

\* 500 ms is blocked, 53 ms is borderline; with no argument the event misses
\* the patterns cached during training
FaultEvents ==
    {TelemetryEvent(PairA, 500, <<"int">>), TelemetryEvent(PairA, 53, <<"int">>),
     TelemetryEvent(PairA, 40, <<>>)}

\* two histories: a core in training, two samples short of its first profile,
\* and a core with a stored profile that scores every event
InitFault == InitTrain \/ InitMaint

\* the scored events before the faults begin
FaultWarmup ==
    /\ bc.events_processed = calls
    /\ MaintScored

ProcessEventIO ==
    /\ \/ bc.events_processed < calls /\ calls < WarmupCalls + MaxFaultCalls
       \/ /\ calls >= MaintWarmupCalls
          /\ calls < MaintWarmupCalls + MaxFaultCalls
    /\ \E event \in FaultEvents, coin \in BOOLEAN, fault \in Faults :
          LET r == process_event_io(State @@ [failed |-> None], event, coin,
                                    now, fault)
          IN  /\ Becomes(r.st)
              /\ ret' = [op |-> "process_event", at |-> now, event |-> event,
                         fault |-> fault, failed |-> r.st.failed,
                         raised |-> r.raised, decision |-> r.decision]
    /\ calls' = calls + 1
    /\ UNCHANGED <<now, signing_key, ticks, threads, eq, bp, ks, conn, agent>>

NextFault ==
    \/ FaultWarmup
    \/ ProcessEventIO

SpecFault == InitFault /\ [][NextFault]_vars

\* C28: when the write to the audit ledger or an access to the state store
\* fails during process_event, the error reaches the caller and no Decision
\* is returned; a Decision that is returned has its audit record in the ledger.
C28_NoUnauditedDecision ==
    [][(IsCall("process_event") /\ "fault" \in DOMAIN ret')
       => /\ ret'.failed # None
                => /\ ret'.decision = NoDecision
                   /\ ret'.failed \in AuditAccesses => ret'.raised = "OSError"
                   /\ ret'.failed \in StoreAccesses
                         => ret'.raised = "RuntimeError"
          /\ ret'.decision # NoDecision
                => /\ ret'.raised = None
                   /\ Len(audit_log') > Len(audit_log)
                   /\ from_json(audit_log'[Len(audit_log')]).action
                         = ret'.decision.action]_vars

C28_Witness ==
    /\ ret.op = "process_event"
    /\ "fault" \in DOMAIN ret
    /\ ret.failed = "log_event:detection"
    /\ ret.raised = "OSError"
    /\ ret.decision = NoDecision
    /\ effector_count > Len(audit_log)

\* ---------------------------------------------------------------------
\* CellAgent.monitor and BrainConnector.send_event
\* ---------------------------------------------------------------------

MaxAgentCalls == 2

FailModes == {"open", "closed"}

SamplingRates == {100, 50}

InitAgent ==
    /\ now = 0
    /\ signing_key = FreshState.signing_key
    /\ sv = FreshState.sv
    /\ samples = FreshState.samples
    /\ baselines = store_baseline(EmptyDict, StoredProfile)
    /\ detectors = FreshState.detectors
    /\ trace = FreshState.trace
    /\ pcache = FreshState.pcache
    /\ audit_log = FreshState.audit_log
    /\ effector_count = FreshState.effector_count
    /\ bc = FreshState.bc
    /\ ret = [op |-> "init", at |-> 0]
    /\ calls = 0
    /\ ticks = 0
    /\ threads = [th \in Threads |-> [pc |-> "idle"]]
    /\ eq = NewQueue
    /\ bp = NewController
    /\ ks = NewKeys
    /\ \E fail_mode \in FailModes :
          conn = [NewConnector EXCEPT !.fail_mode = fail_mode]
    /\ \E observe_only \in BOOLEAN, sampling_rate \in SamplingRates :
          agent = [NewAgent EXCEPT !.observe_only = observe_only,
                                   !.sampling_rate = sampling_rate]

ok == [fault |-> None, slow |-> FALSE]

slow == [fault |-> None, slow |-> TRUE]

raises == [fault |-> "get_baseline", slow |-> FALSE]

\* the outcomes of the retry_attempts attempts of one send_event
AttemptPlans ==
    {<<ok, ok, ok>>, <<slow, ok, ok>>, <<raises, raises, ok>>,
     <<raises, raises, raises>>, <<slow, slow, slow>>}

\* function f has a profile with mean 50 ms, function h has none
AgentPairs == {PairA, PairC}

AgentFrame == UNCHANGED <<now, signing_key, ticks, threads, eq, bp, ks>>

SetBrainConnector ==
    /\ ~agent.brain_connector
    /\ agent' = [agent EXCEPT !.brain_connector = TRUE]
    /\ ret' = [op |-> "set_brain_connector", at |-> now]
    /\ UNCHANGED <<sv, samples, baselines, detectors, trace, pcache, audit_log,
                   effector_count, bc, calls, conn>>
    /\ AgentFrame

MonitorReturn(pair, throttled, r) ==
    /\ Becomes(r.st)
    /\ agent' = r.agent
    /\ conn' = r.conn
    /\ ret' = [op |-> "monitor", at |-> now, pair |-> pair,
               throttled |-> throttled, sent |-> r.sent, raised |-> r.raised]

Monitor ==
    /\ \E pair \in AgentPairs, plan \in AttemptPlans, coin \in BOOLEAN,
          throttled \in BOOLEAN, func_raises \in BOOLEAN :
          MonitorReturn(pair, throttled,
                        wrapper(agent, conn, State @@ [failed |-> None], pair,
                                <<"int">>, plan, coin, now, throttled,
                                func_raises))
    /\ calls' = calls + 1
    /\ AgentFrame

SendReturn(event, r) ==
    /\ Becomes(r.st)
    /\ conn' = r.conn
    /\ ret' = [op |-> "send_event", at |-> now, event |-> event,
               decision |-> r.decision, raised |-> r.raised]

SendEvent ==
    /\ \E pair \in AgentPairs, plan \in AttemptPlans, coin \in BOOLEAN :
          SendReturn(TelemetryEvent(pair, 500, <<"int">>),
                     send_event(conn, State @@ [failed |-> None],
                                TelemetryEvent(pair, 500, <<"int">>), plan,
                                coin, now))
    /\ calls' = calls + 1
    /\ UNCHANGED agent
    /\ AgentFrame

NextAgent ==
    \/ SetBrainConnector
    \/ calls < MaxAgentCalls /\ Monitor
    \/ calls < MaxAgentCalls /\ SendEvent

SpecAgent == InitAgent /\ [][NextAgent]_vars

\* C29: when the agent is not in observe-only mode and the brain connector
\* returns a block Decision for a monitored call, the wrapper raises
\* SecurityException and the wrapped function is not executed.
C29_BlockIsEnforced ==
    [][(/\ IsCall("monitor")
        /\ ~agent.observe_only
        /\ ret'.sent # NoDecision
        /\ ret'.sent.connector_raised = None
        /\ ret'.sent.connector.action = "block")
       => /\ ret'.raised = "SecurityException"
          /\ agent'.executed = agent.executed]_vars

\* C30: when every attempt of send_event fails, the call returns an allow
\* Decision in fail-open mode and a block Decision in fail-closed mode, and
\* raises in neither.
C30_FailModeDecides ==
    [][(/\ IsCall("send_event")
        /\ conn'.successful_requests = conn.successful_requests)
       => /\ ret'.raised = None
          /\ ret'.decision # NoDecision
          /\ conn.fail_mode = "open" => ret'.decision.action = "allow"
          /\ conn.fail_mode = "closed" => ret'.decision.action = "block"]_vars

\* C31: every send_event call ends counted as exactly one of
\* successful_requests or failed_requests, so when no call is in flight
\* total_requests = successful_requests + failed_requests.
C31_RequestsAccounted ==
    conn.total_requests = conn.successful_requests + conn.failed_requests

\* the audit records that close a decision (a soft-allow writes one more)
DecisionRecords(log) ==
    Cardinality({i \in DOMAIN log : from_json(log[i]).event_type # "soft_allow"})

RECURSIVE CountSamples(_, _)
CountSamples(smp, keys) ==
    IF keys = {} THEN 0
    ELSE LET k == CHOOSE x \in keys : TRUE
         IN  Len(smp[k]) + CountSamples(smp, keys \ {k})

\* C32: within one send_event call the event is not submitted to BrainCore
\* again once an attempt has obtained a Decision, so one call adds at most one
\* training sample and the audit trail of at most one decision.
C32_OneDecisionPerSend ==
    [][IsCall("send_event")
       => /\ DecisionRecords(audit_log') <= DecisionRecords(audit_log) + 1
          /\ CountSamples(samples', DOMAIN samples')
                <= CountSamples(samples, DOMAIN samples) + 1]_vars

\* C33: an event for which a sufficient baseline is persisted and whose
\* anomaly score against it is at least the anomaly threshold is never
\* answered with an allow Decision, whatever the pattern cache holds.
C33_AnomalyNeverAllowed ==
    [][(/\ IsCall("process_event")
        /\ LET baseline == get_baseline(baselines, ret'.event.function_name,
                                        ret'.event.module_name)
           IN  /\ baseline # NoBaseline
               /\ is_sufficient(baseline)
               /\ compute_anomaly_score(ret'.event, baseline)
                     >= anomaly_threshold)
       => ret'.decision.action # "allow"]_vars

\* C34: with one caller, a nonce leaves the seen-set only when its recorded
\* timestamp is older than the freshness window, whatever the order in which
\* the timestamps arrived, and a SignedEvent that verify_event accepted once
\* is never accepted again.
C34_AcceptedOnce ==
    [][/\ \A n \in sv.seen_nonces \ sv'.seen_nonces :
             \E i \in DOMAIN sv.nonce_timestamps :
                /\ sv.nonce_timestamps[i][1] = n
                /\ sv.nonce_timestamps[i][2] < now - nonce_expiry_seconds
       /\ (IsCall("verify_event") /\ ret'.valid)
             => ret'.signed_event \notin Accepted(ret)]_vars

\* an event that was accepted at the edge of the freshness window was
\* submitted again after cleanup_old_nonces had removed its nonce, and was
\* rejected as expired
C34_Witness ==
    /\ ret.op = "verify_event"
    /\ ret.signed_event \in ret.accepted
    /\ ~ret.valid
    /\ ret.reason = "Event expired"
    /\ ret.signed_event.nonce \notin sv.seen_nonces
    /\ sv.valid_events = 1

\* the validator state v with its counters of outcomes set aside
WithoutCounters(v) ==
    [seen_nonces |-> v.seen_nonces, nonce_timestamps |-> v.nonce_timestamps]

C36_CacheHitFrame ==
    [][(IsCall("process_event") /\ pcache'.hits = pcache.hits + 1)
       => LET key == cache_key(ret'.event.function_name, ret'.event.module_name)
          IN  /\ ret'.decision
                   = Decision_allow("Known legitimate pattern (cached)", 0)
              /\ Appended(1)
              /\ LastAudit(audit_log').event_type = "cache_hit"
              /\ LastAudit(audit_log').action = "allow"
              /\ key \in DOMAIN pcache.cache
              /\ pcache' = [pcache EXCEPT !.hits = @ + 1,
                                          !.access_times[key] = now,
                                          !.cache[key].hit_count = @ + 1]
              /\ bc' = [bc EXCEPT !.cache_hits = @ + 1]
              /\ UNCHANGED <<samples, trace, baselines, detectors,
                             effector_count, sv, signing_key>>]_vars

\* an event was answered from the cache by a BrainCore that had scored one
\* event before and holds a stored profile
C36_Witness ==
    /\ ret.op = "process_event"
    /\ ret.decision.reason = "Known legitimate pattern (cached)"
    /\ pcache.hits = 1
    /\ bc.cache_hits = 1
    /\ bc.events_processed = 1
    /\ Len(audit_log) = 2
    /\ baselines # EmptyDict

\* C37: with one caller, the profiler never holds more than min_samples
\* samples under any (function, module), and every persisted BaselineProfile
\* has sample_count = min_samples, whatever the function and module names.
C37_SamplesBounded ==
    /\ \A k \in DOMAIN samples : Len(samples[k]) <= min_samples
    /\ \A k \in DOMAIN baselines : baselines[k].sample_count = min_samples

\* C38: add_pattern on a key that is already cached leaves the entry's
\* duration range, argument types and resource digest as they were, so the
\* window stays that of the first event cached under the key; only the hit
\* count, the timestamp and the access time move.
C38_AddKeepsFingerprint ==
    [][(/\ IsCall("add_pattern")
        /\ cache_key(ret'.event.function_name, ret'.event.module_name)
              \in DOMAIN pcache.cache)
       => LET key == cache_key(ret'.event.function_name, ret'.event.module_name)
          IN  /\ DOMAIN pcache'.cache = DOMAIN pcache.cache
              /\ pcache'.cache[key].duration_min = pcache.cache[key].duration_min
              /\ pcache'.cache[key].duration_max = pcache.cache[key].duration_max
              /\ pcache'.cache[key].arg_types = pcache.cache[key].arg_types
              /\ pcache'.cache[key].resource_signature
                    = pcache.cache[key].resource_signature
              /\ pcache'.cache[key].hit_count = pcache.cache[key].hit_count + 1
              /\ pcache'.cache[key].timestamp = now
              /\ \A k \in DOMAIN pcache.cache \ {key} :
                    pcache'.cache[k] = pcache.cache[k]]_vars

\* a 140 ms call without arguments was added under a key cached from a
\* 100 ms call with one int argument, and the entry kept the window 90..110
C38_Witness ==
    /\ ret.op = "add_pattern"
    /\ ret.event = TelemetryEvent(PairA, 140, <<>>)
    /\ cache_key("f", "m.g") \in DOMAIN pcache.cache
    /\ pcache.cache[cache_key("f", "m.g")].duration_min = 90000
    /\ pcache.cache[cache_key("f", "m.g")].duration_max = 110000
    /\ pcache.cache[cache_key("f", "m.g")].arg_types = <<"int">>
    /\ pcache.cache[cache_key("f", "m.g")].hit_count = 2

\* C40: after any sequence of add_pattern, check_match, evict_expired and
\* clear by one caller, the entry map and the access-time map of the pattern
\* cache have the same keys and the cache holds at most max_size entries.
C40_MapsAgree ==
    /\ DOMAIN pcache.cache = DOMAIN pcache.access_times
    /\ Cardinality(DOMAIN pcache.cache) <= pattern_cache_max_size

\* a cache that had been filled and had evicted its least recently used
\* entry was cleared
C40_Witness ==
    /\ ret.op = "clear"
    /\ pcache.evictions = 1
    /\ pcache.cache = EmptyDict
    /\ pcache.access_times = EmptyDict
    /\ pcache.misses = 0

(***************************************************************************)
(* SpecLimiter: the RateLimiter of one CellAgent called directly by one    *)
(* caller, for three function names, with the clock advancing by less than *)
(* a window and by a whole window.                                         *)
(***************************************************************************)
LimiterFunctions == {"f", "h", "k"}

\* the events that check_rate has allowed up to the call recorded in r, as
\* pairs of the window they fell in and the function name, each with its count
Grants(r) == IF "grants" \in DOMAIN r THEN r.grants ELSE EmptyDict

InitLimiter == InitFresh

\* RateLimiter.check_rate(function_name)
CheckRate ==
    /\ \E function_name \in LimiterFunctions :
          LET r == check_rate(agent.rate_limiter, function_name, now)
              slot == <<r.rl.window_start, function_name>>
          IN  /\ agent' = [agent EXCEPT !.rate_limiter = r.rl]
              /\ ret' = [op |-> "check_rate", at |-> now,
                         function_name |-> function_name,
                         allowed |-> r.allowed,
                         grants |-> IF ~r.allowed THEN Grants(ret)
                                    ELSE IF slot \in DOMAIN Grants(ret)
                                    THEN [Grants(ret) EXCEPT ![slot] = @ + 1]
                                    ELSE Put(Grants(ret), slot, 1)]
    /\ calls' = calls + 1
    /\ UNCHANGED <<now, signing_key, sv, samples, baselines, detectors, trace,
                   pcache, audit_log, effector_count, bc, ticks, threads, eq, bp,
                   ks, conn>>

NextLimiter ==
    \/ calls < MaxLimiterCalls /\ CheckRate
    \/ ticks < MaxLimiterTicks /\ Tick({1, window_seconds})

SpecLimiter == InitLimiter /\ [][NextLimiter]_vars

\* the number of events allowed in window w, over the function names F
RECURSIVE GrantedIn(_, _, _)
GrantedIn(g, w, F) ==
    IF F = {} THEN 0
    ELSE LET fn == CHOOSE x \in F : TRUE
         IN  (IF <<w, fn>> \in DOMAIN g THEN g[<<w, fn>>] ELSE 0)
               + GrantedIn(g, w, F \ {fn})

\* C39: in every window the RateLimiter allows at most global_limit events
\* in all and at most per_function_limit events of one function name; a
\* check_rate call that resets the window starts from empty counters, an
\* empty throttled set and no dropped events; and after every check_rate
\* total_checks = total_allowed + total_throttled.
C39_WindowLimits ==
    [][IsCall("check_rate")
       => LET rl == agent'.rate_limiter
              fn == ret'.function_name
              given == IF ret'.allowed THEN 1 ELSE 0
          IN  /\ \A s \in DOMAIN ret'.grants :
                    /\ ret'.grants[s] <= per_function_limit
                    /\ GrantedIn(ret'.grants, s[1], LimiterFunctions) <= global_limit
              /\ rl.global_counter
                    = GrantedIn(ret'.grants, rl.window_start, LimiterFunctions)
              /\ rl.total_checks = rl.total_allowed + rl.total_throttled
              /\ rl.total_checks = agent.rate_limiter.total_checks + 1
              /\ rl.total_allowed = agent.rate_limiter.total_allowed + given
              /\ (now - agent.rate_limiter.window_start >= window_seconds)
                    => /\ rl.window_start = now
                       /\ rl.global_counter = given
                       /\ rl.function_counters = Put(EmptyDict, fn, given)
                       /\ rl.throttled_functions = {}
                       /\ ~rl.throttling_active
                       /\ rl.dropped_events = 0]_vars

\* a window in which global_limit events had been allowed and two dropped
\* was reset by the next check_rate, which allowed its event
C39_Witness ==
    /\ ret.op = "check_rate"
    /\ ret.allowed
    /\ agent.rate_limiter.window_start > 0
    /\ agent.rate_limiter.global_counter = 1
    /\ agent.rate_limiter.total_throttled = 2
    /\ agent.rate_limiter.total_allowed = global_limit + 1
    /\ agent.rate_limiter.throttled_functions = {}
    /\ ~agent.rate_limiter.throttling_active

====
